---- MODULE Spec2Model ----
(***************************************************************************)
(* Verification model of the chandodaya metrical analysis engine:          *)
(*   - src/src/syllabifier.py          (akshara segmentation, L/G, ganas)  *)
(*   - src/src/normalization.py        (normalize_text and its steps)      *)
(*   - src/src/rule_based_classifier.py (two-layer meter classifier)       *)
(*   - src/src/pada_sandhi.py          (split_padas, sandhi profile)       *)
(*   - src/src/chanda_parser.py        (parse_chanda_cell, deviation D)    *)
(*   - src/src/feature_extractor.py    (the way of a text to the counts)   *)
(*   - src/src/api.py                  (the calls of classify_rule_based)  *)
(*                                                                         *)
(* Characters are modelled as strings holding a transliterated name of the *)
(* code point ("ra" is U+0930, "-aa" is the dependent sign U+093E, ...).   *)
(* A Python str is a sequence of such characters.  An Optional[str] is the *)
(* string or None ("None"); any other Optional value v is NoValue (<<>>)   *)
(* or Some(v) (<<v>>), read back with Val.                                 *)
(***************************************************************************)
EXTENDS Integers, Sequences, FiniteSets, TLC

None == "None"

NoValue == <<>>

Some(v) == <<v>>

Val(o) == o[1]

(***************************************************************************)
(* Bounds of the model.                                                    *)
(***************************************************************************)
\* longest pada text given to syllabify_line
MaxLen == 4

\* most padas (per-pada counts, and the pada_count argument) of one call
MaxPadas == 5

\* most rules in the loaded rule table
MaxRules == 2

\* largest distance of the one deviating pada from the others in an input
MaxDev == 2

\* longest verse text given to split_padas
MaxVerseLen == 6

\* longest text given to normalize_danda and normalize_text
MaxTextLen == 4

\* longest L/G string given to lg_to_ganas on its own
MaxTags == 7

\* longest pada text of the calls of syllabify_line followed to their return
MaxFairLen == 3

(***************************************************************************)
(* syllabifier.py: character categories                                    *)
(***************************************************************************)
INDEPENDENT_VOWELS ==
    {"a", "aa", "i", "ii", "u", "uu", "vr", "vrr", "vl", "vll",
     "e", "ai", "o", "au", "om"}

DEPENDENT_VOWEL_SIGNS ==
    {"-aa", "-i", "-ii", "-u", "-uu", "-vr", "-vrr", "-vl", "-vll",
     "-e", "-ai", "-o", "-au", "-candra_e", "-candra_o", "-short_e", "-short_o"}

ANUSVARA == "anusvara"
VISARGA == "visarga"
CANDRABINDU == "candrabindu"
NUKTA == "nukta"

CONSONANTS ==
    {"ka", "kha", "ga", "gha", "nga", "ca", "cha", "ja", "jha", "nya",
     "tta", "ttha", "dda", "ddha", "nna", "ta", "tha", "da", "dha", "na",
     "pa", "pha", "ba", "bha", "ma", "ya", "ra", "la", "va",
     "sha", "ssa", "sa", "ha"}

\* mutant: the key GGG is missing from the table
GANA_MAP_NoGGG(triplet) ==
    CASE triplet = <<"L", "L", "L">> -> "na"
      [] triplet = <<"L", "L", "G">> -> "ya"
      [] triplet = <<"L", "G", "L">> -> "ta"
      [] triplet = <<"L", "G", "G">> -> "ra"
      [] triplet = <<"G", "L", "L">> -> "ma"
      [] triplet = <<"G", "L", "G">> -> "bha"
      [] triplet = <<"G", "G", "L">> -> "sa"
      [] OTHER -> "?"

\* the three-tag key of GANA_MAP, or "?" (the default of GANA_MAP.get)
GANA_MAP(triplet) ==
    CASE triplet = <<"L", "L", "L">> -> "na"
      [] triplet = <<"L", "L", "G">> -> "ya"
      [] triplet = <<"L", "G", "L">> -> "ta"
      [] triplet = <<"L", "G", "G">> -> "ra"
      [] triplet = <<"G", "L", "L">> -> "ma"
      [] triplet = <<"G", "L", "G">> -> "bha"
      [] triplet = <<"G", "G", "L">> -> "sa"
      [] triplet = <<"G", "G", "G">> -> "ja"
      [] OTHER -> "?"

\* ch.isspace() or ch in "|" / danda / double danda   (syllabify_line, line 162)
WHITESPACE == {" ", "\t", "\n"}

BOUNDARY_CHARS == {"|", "danda", "double_danda"}

IsSeparator(ch) == ch \in WHITESPACE \/ ch \in BOUNDARY_CHARS

_is_independent_vowel(ch) == ch \in INDEPENDENT_VOWELS

_is_dependent_vowel(ch) == ch \in DEPENDENT_VOWEL_SIGNS

_is_consonant(ch) == ch \in CONSONANTS

_is_mark(ch) == ch \in {ANUSVARA, VISARGA, CANDRABINDU, NUKTA}

\* mutant: a character of no category is not handled by any branch
IsOther_Never(ch) == FALSE

\* the final fall-through of the loop: none of the tests above holds
IsOther(ch) ==
    /\ ~IsSeparator(ch)
    /\ ~_is_independent_vowel(ch)
    /\ ~_is_consonant(ch)
    /\ ~_is_dependent_vowel(ch)
    /\ ~_is_mark(ch)

ShortVowels == {"a", "i", "u", "vr", "vl", "-i", "-u", "-vr", "-vl"}

LongVowels ==
    {"aa", "ii", "uu", "vrr", "vll", "e", "ai", "o", "au",
     "-aa", "-ii", "-uu", "-vrr", "-vll", "-e", "-ai", "-o", "-au"}

_matra_for_vowel(v) ==
    IF v \in LongVowels THEN 2
    ELSE IF v \in ShortVowels THEN 1
    ELSE 1

\* Akshara.L_or_G
L_or_G(a) == IF a.prosodic_matra >= 2 THEN "G" ELSE "L"

(***************************************************************************)
(* normalization.py: svara marks                                           *)
(***************************************************************************)
\* U+0951..U+0954; the Vedic Extensions marks are written "vedic_1CD0" ...
SVARA_MARKS ==
    {"udatta", "anudatta", "grave", "acute",
     "vedic_1CD0", "vedic_1CD1", "vedic_1CD2", "vedic_1CD3", "vedic_1CD4",
     "vedic_1CD5", "vedic_1CD6", "vedic_1CD7", "vedic_1CD8", "vedic_1CD9",
     "vedic_1CDA", "vedic_1CDB", "vedic_1CDC", "vedic_1CDD", "vedic_1CDE",
     "vedic_1CDF", "vedic_1CE0", "vedic_1CE1", "vedic_1CE2", "vedic_1CE3",
     "vedic_1CE4", "vedic_1CE5", "vedic_1CE6", "vedic_1CE7", "vedic_1CE8",
     "vedic_1CF2", "vedic_1CF3", "vedic_1CF4"}

IsNotSvara(ch) == ch \notin SVARA_MARKS

strip_svara_marks(text) == SelectSeq(text, IsNotSvara)

(***************************************************************************)
(* Sequence helpers                                                        *)
(***************************************************************************)
RECURSIVE Flatten(_)
\* "".join(parts): the concatenation of a sequence of character sequences
Flatten(parts) ==
    IF parts = <<>> THEN <<>>
    ELSE Head(parts) \o Flatten(Tail(parts))

RECURSIVE Replace(_, _, _)
\* str.replace(old, new) for a non-empty old: leftmost occurrences, not overlapping
Replace(str, old, new) ==
    IF Len(str) < Len(old) THEN str
    ELSE IF SubSeq(str, 1, Len(old)) = old
    THEN new \o Replace(SubSeq(str, Len(old) + 1, Len(str)), old, new)
    ELSE <<Head(str)>> \o Replace(Tail(str), old, new)

\* all character sequences of length at most n over the set S
SeqsUpTo(S, n) == UNION {[1..k -> S] : k \in 0..n}

(***************************************************************************)
(* syllabifier.py: flush_current, the loop body of syllabify_line          *)
(* The locals of one call are gathered in a record                         *)
(*   [aksharas, cur_text, cur_vowel, cur_coda].                            *)
(***************************************************************************)
EmptyLocals ==
    [aksharas |-> <<>>, cur_text |-> <<>>, cur_vowel |-> None, cur_coda |-> <<>>]

\* mutant: a coda no longer forces two matras
ProsodicMatra_IgnoreCoda(vowel, coda) == _matra_for_vowel(vowel)

\* lines 132-134: pros = _matra_for_vowel(vowel); if coda: pros = max(pros, 2)
ProsodicMatra(vowel, coda) ==
    LET pros == _matra_for_vowel(vowel)
    IN  IF coda # <<>> THEN (IF pros >= 2 THEN pros ELSE 2) ELSE pros

\* lines 133-139
GuruReason(vowel, coda) ==
    IF coda # <<>> THEN "coda_cluster"
    ELSE IF _matra_for_vowel(vowel) >= 2 THEN "long_vowel"
    ELSE "short_open"

flush_current(st) ==
    IF st.cur_text = <<>> /\ st.cur_vowel = None /\ st.cur_coda = <<>>
    THEN st
    ELSE LET full_text == st.cur_text \o st.cur_coda
             vowel == IF st.cur_vowel = None THEN "a" ELSE st.cur_vowel
             coda == st.cur_coda
             pros == ProsodicMatra(vowel, coda)
         IN  [aksharas |-> Append(st.aksharas,
                                  [text |-> full_text,
                                   vowel |-> vowel,
                                   coda |-> coda,
                                   prosodic_matra |-> pros,
                                   phonetic_matra |-> pros,
                                   guru_reason |-> GuruReason(vowel, coda)]),
              cur_text |-> <<>>,
              cur_vowel |-> None,
              cur_coda |-> <<>>]

\* lines 162-165
OnSeparator(st) == flush_current(st)

\* lines 167-173
OnIndependentVowel(st, ch) ==
    [flush_current(st) EXCEPT !.cur_text = <<ch>>, !.cur_vowel = ch, !.cur_coda = <<>>]

\* lines 175-183
OnConsonant(st, ch) ==
    IF st.cur_text = <<>> /\ st.cur_vowel = None
    THEN [st EXCEPT !.cur_text = <<ch>>, !.cur_vowel = "a", !.cur_coda = <<>>]
    ELSE [st EXCEPT !.cur_text = Append(st.cur_text, ch)]

\* mutant: a sign read while a syllable is open leaves its nucleus as it was
OnDependentVowel_KeepVowel(st, ch) ==
    IF st.cur_text = <<>>
    THEN [flush_current(st) EXCEPT !.cur_text = <<ch>>, !.cur_vowel = ch, !.cur_coda = <<>>]
    ELSE [st EXCEPT !.cur_text = Append(st.cur_text, ch)]

\* lines 185-195
OnDependentVowel(st, ch) ==
    IF st.cur_text = <<>>
    THEN [flush_current(st) EXCEPT !.cur_text = <<ch>>, !.cur_vowel = ch, !.cur_coda = <<>>]
    ELSE [st EXCEPT !.cur_text = Append(st.cur_text, ch), !.cur_vowel = ch]

\* lines 197-200
OnMark(st, ch) == [st EXCEPT !.cur_coda = Append(st.cur_coda, ch)]

\* lines 202-203
OnOther(st, ch) == [st EXCEPT !.cur_text = Append(st.cur_text, ch)]

\* one iteration of the while loop, lines 159-203
LoopBody(st, ch) ==
    IF IsSeparator(ch) THEN OnSeparator(st)
    ELSE IF _is_independent_vowel(ch) THEN OnIndependentVowel(st, ch)
    ELSE IF _is_consonant(ch) THEN OnConsonant(st, ch)
    ELSE IF _is_dependent_vowel(ch) THEN OnDependentVowel(st, ch)
    ELSE IF _is_mark(ch) THEN OnMark(st, ch)
    ELSE OnOther(st, ch)

\* line 207: LG = "".join(a.L_or_G() for a in aksharas)
LGOf(aks) == [k \in 1..Len(aks) |-> L_or_G(aks[k])]

IsNotSpace(ch) == ch # " "

\* mutant: a trailing remainder of one or two tags is named as well
lg_to_ganas_NameRemainder(lg) ==
    LET s == SelectSeq(lg, IsNotSpace)
        n == Len(s)
    IN  [k \in 1..((n + 2) \div 3) |->
            GANA_MAP(SubSeq(s, 3 * k - 2, IF 3 * k <= n THEN 3 * k ELSE n))]

\* lines 87-102 (an L/G string has no whitespace for .strip() to take off)
lg_to_ganas(lg) ==
    LET s == SelectSeq(lg, IsNotSpace)
        n == Len(s)
        usable == n - (n % 3)
    IN  [k \in 1..(usable \div 3) |-> GANA_MAP(SubSeq(s, 3 * k - 2, 3 * k))]

RECURSIVE RunLoop(_, _)
\* the while loop run over a whole text
RunLoop(st, text) ==
    IF text = <<>> THEN st
    ELSE RunLoop(LoopBody(st, Head(text)), Tail(text))

\* syllabify_line as a function of its argument: (aksharas, LG, ganas)
syllabify_line(text) ==
    LET aks == flush_current(RunLoop(EmptyLocals, text)).aksharas
    IN  [aksharas |-> aks, LG |-> LGOf(aks), ganas |-> lg_to_ganas(LGOf(aks))]

(***************************************************************************)
(* rule_based_classifier.py                                                *)
(* A str argument is a sequence of characters; a label is the sequence of  *)
(* its space-separated words, so f"{dev_label} {base_family}" is           *)
(* <<dev_label, base_family>> and a bare family name f is <<f>>.           *)
(***************************************************************************)
\* mutant: anushtubh stands before gayatri in the table
BASE_METER_SYLLABLES_AnushtubhFirst ==
    << [fam |-> "anushtubh", target |-> 8],
       [fam |-> "gayatri", target |-> 8],
       [fam |-> "ushnih", target |-> 7],
       [fam |-> "brihati", target |-> 9],
       [fam |-> "pankti", target |-> 8],
       [fam |-> "trishtubh", target |-> 11],
       [fam |-> "jagati", target |-> 12] >>

\* the dict keeps its insertion order: (family, target) in source order
BASE_METER_SYLLABLES ==
    << [fam |-> "gayatri", target |-> 8],
       [fam |-> "ushnih", target |-> 7],
       [fam |-> "anushtubh", target |-> 8],
       [fam |-> "brihati", target |-> 9],
       [fam |-> "pankti", target |-> 8],
       [fam |-> "trishtubh", target |-> 11],
       [fam |-> "jagati", target |-> 12] >>

\* mutant: a family that is not in the table has the target 8
BaseTarget_AnyFamily(fam) ==
    IF \E k \in 1..Len(BASE_METER_SYLLABLES) : BASE_METER_SYLLABLES[k].fam = fam
    THEN LET k == CHOOSE k \in 1..Len(BASE_METER_SYLLABLES) :
                      BASE_METER_SYLLABLES[k].fam = fam
         IN  Some(BASE_METER_SYLLABLES[k].target)
    ELSE Some(8)

\* BASE_METER_SYLLABLES.get(fam)
BaseTarget(fam) ==
    IF \E k \in 1..Len(BASE_METER_SYLLABLES) : BASE_METER_SYLLABLES[k].fam = fam
    THEN LET k == CHOOSE k \in 1..Len(BASE_METER_SYLLABLES) :
                      BASE_METER_SYLLABLES[k].fam = fam
         IN  Some(BASE_METER_SYLLABLES[k].target)
    ELSE NoValue

Abs(x) == IF x < 0 THEN -x ELSE x

DigitChars == <<"0", "1", "2", "3", "4", "5", "6", "7", "8", "9">>

IsDigit(ch) == \E d \in 1..10 : DigitChars[d] = ch

DigitValue(ch) == (CHOOSE d \in 1..10 : DigitChars[d] = ch) - 1

RECURSIVE IntToStr(_)
\* str(c) of a count c >= 0
IntToStr(n) ==
    IF n < 10 THEN <<DigitChars[n + 1]>>
    ELSE Append(IntToStr(n \div 10), DigitChars[(n % 10) + 1])

RECURSIVE JoinCounts_SpaceSeparated(_)
\* mutant: the counts are joined by spaces
JoinCounts_SpaceSeparated(cs) ==
    IF cs = <<>> THEN <<>>
    ELSE IF Len(cs) = 1 THEN IntToStr(cs[1])
    ELSE IntToStr(cs[1]) \o <<" ">> \o JoinCounts_SpaceSeparated(Tail(cs))

RECURSIVE JoinCounts(_)
\* ",".join(str(c) for c in syllable_counts)
JoinCounts(cs) ==
    IF cs = <<>> THEN <<>>
    ELSE IF Len(cs) = 1 THEN IntToStr(cs[1])
    ELSE IntToStr(cs[1]) \o <<",">> \o JoinCounts(Tail(cs))

RECURSIVE SplitComma(_, _)
\* str.split(","): cur is the field being read
SplitComma(str, cur) ==
    IF str = <<>> THEN <<cur>>
    ELSE IF Head(str) = "," THEN <<cur>> \o SplitComma(Tail(str), <<>>)
    ELSE SplitComma(Tail(str), Append(cur, Head(str)))

RECURSIVE LStrip(_)
LStrip(str) ==
    IF str # <<>> /\ Head(str) \in WHITESPACE THEN LStrip(Tail(str)) ELSE str

RECURSIVE RStrip(_)
RStrip(str) ==
    IF str # <<>> /\ str[Len(str)] \in WHITESPACE
    THEN RStrip(SubSeq(str, 1, Len(str) - 1))
    ELSE str

\* str.strip()
Strip(str) == RStrip(LStrip(str))

\* int(p) succeeds: p is a non-empty run of decimal digits
IsIntLiteral(p) == p # <<>> /\ \A k \in 1..Len(p) : IsDigit(p[k])

RECURSIVE ParseInt(_)
ParseInt(p) ==
    IF p = <<>> THEN 0
    ELSE 10 * ParseInt(SubSeq(p, 1, Len(p) - 1)) + DigitValue(p[Len(p)])

RECURSIVE ParseParts(_)
\* the loop of _parse_counts: a part int() rejects is skipped
ParseParts(parts) ==
    IF parts = <<>> THEN <<>>
    ELSE LET p == Strip(Head(parts))
         IN  IF p = <<>> THEN ParseParts(Tail(parts))
             ELSE IF IsIntLiteral(p) THEN <<ParseInt(p)>> \o ParseParts(Tail(parts))
             ELSE ParseParts(Tail(parts))

_parse_counts(str) ==
    IF str = <<>> THEN <<>> ELSE ParseParts(SplitComma(str, <<>>))

\* mutant: D <= -1 gives nichrid
InferDeviationLabel_AnyNegative(D) ==
    IF D <= -1 THEN "nichrid"
    ELSE IF D = 1 THEN "bhurik"
    ELSE IF D = 2 THEN "viraj"
    ELSE IF D >= 3 THEN "svaraj"
    ELSE None

_infer_deviation_label(D) ==
    IF D = -1 THEN "nichrid"
    ELSE IF D = 1 THEN "bhurik"
    ELSE IF D = 2 THEN "viraj"
    ELSE IF D >= 3 THEN "svaraj"
    ELSE None

\* max(abs(c - r) for c, r in zip(counts, rule_pattern)), equal non-zero lengths
MaxAbsDiff(cs, pattern) ==
    LET diffs == {Abs(cs[k] - pattern[k]) : k \in 1..Len(cs)}
    IN  CHOOSE d \in diffs : \A e \in diffs : e <= d

\* mutant: a rule at exactly its tolerance is rejected
WithinTolerance_Strict(max_abs_diff, tol) == max_abs_diff < tol

\* line 156: the rule is kept unless max_abs_diff > tol
WithinTolerance(max_abs_diff, tol) == ~(max_abs_diff > tol)

\* mutant: the support of a rule no longer breaks ties
IsBetter_IgnoreSupport(max_abs_diff, cnt, best_score, best_support) ==
    best_score = NoValue \/ max_abs_diff < Val(best_score)

\* lines 160-162
IsBetter(max_abs_diff, cnt, best_score, best_support) ==
    \/ best_score = NoValue
    \/ max_abs_diff < Val(best_score)
    \/ /\ max_abs_diff = Val(best_score)
       /\ cnt > (IF best_support = NoValue THEN 0 ELSE Val(best_support))

\* best_rule is the position in the table of the rule it refers to, 0 for None
NoBest ==
    [best_rule |-> 0, best_score |-> NoValue, best_support |-> NoValue, raised |-> None]

\* a pattern entry json.load gives that is not a number (a JSON string or
\* null), written as a value no syllable count takes
NonNumeric == -1

HasNonNumeric(pattern) == \E k \in 1..Len(pattern) : pattern[k] = NonNumeric

\* one iteration of the loop over CHANDA_RULES, lines 140-165, for the rule at
\* position k; line 153: max() of an empty sequence raises ValueError, and
\* abs(c - r) raises TypeError when the entry r is not a number
MatchStep(acc, rules, k, pada_count, cs) ==
    LET r == rules[k]
    IN  IF acc.raised # None THEN acc
        ELSE IF r.pada_count = NoValue \/ r.syllable_pattern = NoValue THEN acc
        ELSE IF Val(r.pada_count) # pada_count THEN acc
        ELSE IF Len(Val(r.syllable_pattern)) # Len(cs) THEN acc
        ELSE IF Len(cs) = 0 THEN [acc EXCEPT !.raised = "ValueError"]
        ELSE IF HasNonNumeric(Val(r.syllable_pattern))
        THEN [acc EXCEPT !.raised = "TypeError"]
        ELSE LET max_abs_diff == MaxAbsDiff(cs, Val(r.syllable_pattern))
             IN  IF ~WithinTolerance(max_abs_diff, r.max_diff_tolerance) THEN acc
                 ELSE IF IsBetter(max_abs_diff, r.count, acc.best_score, acc.best_support)
                 THEN [acc EXCEPT !.best_score = Some(max_abs_diff),
                                  !.best_support = Some(r.count),
                                  !.best_rule = k]
                 ELSE acc

\* mutant: Layer 1 is skipped without a note
EmptyTableResult_NoNote == [rule |-> 0, notes |-> <<>>, raised |-> None]

\* lines 130-132: no rule loaded, Layer 1 is skipped and says so
EmptyTableResult == [rule |-> 0, notes |-> <<"no_rules_loaded">>, raised |-> None]

RECURSIVE MatchLoop(_, _, _, _, _)
\* the loop from position k on
MatchLoop(acc, rules, k, pada_count, cs) ==
    IF k > Len(rules) THEN acc
    ELSE MatchLoop(MatchStep(acc, rules, k, pada_count, cs), rules, k + 1, pada_count, cs)

\* _match_chanda_rule over the table `rules`: [rule, notes, raised], rule being
\* the position of the returned rule in the table, 0 for None
_match_chanda_rule(rules, pada_count, cs) ==
    IF rules = <<>>
    THEN EmptyTableResult
    ELSE LET acc == MatchLoop(NoBest, rules, 1, pada_count, cs)
         IN  [rule |-> acc.best_rule,
              notes |-> <<"trying_to_match">> \o
                        (IF acc.best_rule = 0 THEN <<"no_matching_rule">>
                                                 ELSE <<"matched_rule">>),
              raised |-> acc.raised]

\* mutant: the 4 x 8 line of the exact table is missing
ExactFamily_NoAnushtubh(pada_count, n) ==
    IF pada_count = 3 /\ n = 8 THEN "gayatri"
    ELSE IF pada_count = 5 /\ n = 8 THEN "pankti"
    ELSE IF pada_count = 4 /\ n = 11 THEN "trishtubh"
    ELSE IF pada_count = 4 /\ n = 12 THEN "jagati"
    ELSE IF pada_count = 4 /\ n = 9 THEN "brihati"
    ELSE IF 2 <= pada_count /\ pada_count <= 4 /\ n = 7 THEN "ushnih"
    ELSE None

\* lines 202-222: the exact (pada_count, n) combinations
ExactFamily(pada_count, n) ==
    IF pada_count = 3 /\ n = 8 THEN "gayatri"
    ELSE IF pada_count = 4 /\ n = 8 THEN "anushtubh"
    ELSE IF pada_count = 5 /\ n = 8 THEN "pankti"
    ELSE IF pada_count = 4 /\ n = 11 THEN "trishtubh"
    ELSE IF pada_count = 4 /\ n = 12 THEN "jagati"
    ELSE IF pada_count = 4 /\ n = 9 THEN "brihati"
    ELSE IF 2 <= pada_count /\ pada_count <= 4 /\ n = 7 THEN "ushnih"
    ELSE None

\* mutant: a later family at the same distance replaces the earlier one
IsCloser_OrEqual(D, best_D_abs) == best_D_abs = NoValue \/ Abs(D) <= Val(best_D_abs)

\* line 229
IsCloser(D, best_D_abs) == best_D_abs = NoValue \/ Abs(D) < Val(best_D_abs)

RECURSIVE ClosestLoop(_, _, _)
\* lines 225-231: the loop over BASE_METER_SYLLABLES.items()
ClosestLoop(acc, items, first) ==
    IF items = <<>> THEN acc
    ELSE LET D == first - Head(items).target
         IN  ClosestLoop(IF IsCloser(D, acc.best_D_abs)
                         THEN [best_family |-> Head(items).fam, best_D_abs |-> Some(Abs(D))]
                         ELSE acc,
                         Tail(items), first)

\* _choose_base_family_pingala: [family, notes]
_choose_base_family_pingala(pada_count, cs) ==
    IF cs = <<>>
    THEN [family |-> None, notes |-> <<"no_syllable_counts">>]
    ELSE LET first == cs[1]
             all_equal == Cardinality({cs[k] : k \in 1..Len(cs)}) = 1
             exact == IF all_equal THEN ExactFamily(pada_count, first) ELSE None
             best == ClosestLoop([best_family |-> None, best_D_abs |-> NoValue],
                                 BASE_METER_SYLLABLES, first)
         IN  IF exact # None
             THEN [family |-> exact, notes |-> <<"pingala_exact">>]
             ELSE [family |-> best.best_family,
                   notes |-> IF best.best_family # None
                             THEN <<"pingala_fallback_closest">>
                             ELSE <<"pingala_fallback_none">>]

\* mutant: the composed label is used even when Layer 1 gave one
ComposeLabel_IgnoreRuleLabel(full_label, dev_label, base_family) ==
    IF dev_label = None THEN <<base_family>> ELSE <<dev_label, base_family>>

\* lines 312-318: full_label or base_family / full_label or f"{dev_label} {base_family}"
ComposeLabel(full_label, dev_label, base_family) ==
    IF full_label # <<>> THEN full_label
    ELSE IF dev_label = None THEN <<base_family>>
    ELSE <<dev_label, base_family>>

\* classify_rule_based, lines 262-326, given the parsed counts cs (line 261) and
\* the value m of _match_chanda_rule (line 267): [counts, rule, raised, result];
\* rule is the position of the Layer-1 rule (0 for None), result is
\* Some(RuleBasedResult) or NoValue if the call raised.  A label that is None
\* and an empty label are both <<>> (the code tests them with `or`).
ClassifyBody(rules, pada_count, cs, m) ==
    LET notes0 == <<"parsed_counts", "pada_count_and_veda">>
        notes1 == notes0 \o m.notes
        full_label == IF m.rule # 0 THEN rules[m.rule].label ELSE <<>>
        rule_family == IF m.rule # 0 THEN rules[m.rule].base_family ELSE None
        notes2 == IF m.rule = 0 THEN notes1
                  ELSE IF rule_family # None /\ rule_family # ""
                       THEN Append(notes1, "using_rule_base_family")
                       ELSE Append(notes1, "rule_has_no_base_family")
        ping == _choose_base_family_pingala(pada_count, cs)
        base_family == IF rule_family = None THEN ping.family ELSE rule_family
        notes3 == IF rule_family = None THEN notes2 \o ping.notes ELSE notes2
        target == IF base_family = None THEN NoValue ELSE BaseTarget(base_family)
    IN  IF m.raised # None
        THEN [counts |-> cs, rule |-> 0, raised |-> m.raised, result |-> NoValue]
        ELSE IF base_family = None \/ cs = <<>>
        THEN [counts |-> cs, rule |-> m.rule, raised |-> None,
              result |-> Some([base_family |-> None,
                               deviation_D |-> NoValue,
                               deviation_label |-> None,
                               full_label |-> full_label,
                               notes |-> notes3])]
        ELSE IF target = NoValue
        THEN [counts |-> cs, rule |-> m.rule, raised |-> None,
              result |-> Some([base_family |-> base_family,
                               deviation_D |-> NoValue,
                               deviation_label |-> None,
                               full_label |-> IF full_label # <<>>
                                              THEN full_label ELSE <<base_family>>,
                               notes |-> Append(notes3, "family_not_in_pingala_map")])]
        ELSE LET D == cs[1] - Val(target)
                 dev_label == _infer_deviation_label(D)
             IN  [counts |-> cs, rule |-> m.rule, raised |-> None,
                  result |-> Some([base_family |-> base_family,
                                   deviation_D |-> Some(D),
                                   deviation_label |-> dev_label,
                                   full_label |-> ComposeLabel(full_label, dev_label,
                                                               base_family),
                                   notes |-> Append(notes3,
                                                    IF dev_label = None THEN "D_no_label"
                                                                        ELSE "D_label")])]

\* classify_rule_based over the table `rules`
classify_rule_based(rules, pada_count, syllable_count_per_pada) ==
    LET cs == _parse_counts(syllable_count_per_pada)
    IN  ClassifyBody(rules, pada_count, cs, _match_chanda_rule(rules, pada_count, cs))

(***************************************************************************)
(* normalization.py: to_nfc, normalize_whitespace, normalize_danda,        *)
(* normalize_text.  "qa" is the precomposed letter U+0958, whose canonical *)
(* form is "ka" followed by "nukta"; "\\" is the backslash.                 *)
(***************************************************************************)
\* unicodedata.normalize("NFC", ch) of one character of the model
NfcOfChar(ch) == IF ch = "qa" THEN <<"ka", NUKTA>> ELSE <<ch>>

\* lines 79-93, on texts in which no combining mark precedes a nukta
to_nfc(text) == Flatten([k \in 1..Len(text) |-> NfcOfChar(text[k])])

RECURSIVE CollapseWhitespace(_)
\* _WHITESPACE_RE.sub(" ", text): every maximal run of whitespace becomes one space
CollapseWhitespace(str) ==
    IF str = <<>> THEN <<>>
    ELSE IF Head(str) \in WHITESPACE THEN <<" ">> \o CollapseWhitespace(LStrip(str))
    ELSE <<Head(str)>> \o CollapseWhitespace(Tail(str))

\* lines 96-112
normalize_whitespace(text) == Strip(CollapseWhitespace(text))

\* mutant: the double danda is replaced by two single dandas
DandaReplacement_TwoDandas(ch) ==
    IF ch = "danda" THEN <<"|">>
    ELSE IF ch = "double_danda" THEN <<"danda", "danda">>
    ELSE IF ch = "/" THEN <<"|">>
    ELSE IF ch = "\\" THEN <<"|">>
    ELSE <<ch>>

\* lines 32-37 and 136-139: DANDA_CHARS[ch] for a key of DANDA_CHARS, else ch
DandaReplacement(ch) ==
    IF ch = "danda" THEN <<"|">>
    ELSE IF ch = "double_danda" THEN <<"|", "|">>
    ELSE IF ch = "/" THEN <<"|">>
    ELSE IF ch = "\\" THEN <<"|">>
    ELSE <<ch>>

RECURSIVE SubSpaced(_, _, _)
\* re.sub of whitespace*, pat, whitespace* by repl (pat a run of bars): a match
\* begins where the whitespace from there on is followed by pat, and takes
\* all the whitespace behind pat; the search goes on behind the match
SubSpaced(str, pat, repl) ==
    IF str = <<>> THEN <<>>
    ELSE LET rest == LStrip(str)
         IN  IF Len(rest) >= Len(pat) /\ SubSeq(rest, 1, Len(pat)) = pat
             THEN repl \o SubSpaced(LStrip(SubSeq(rest, Len(pat) + 1, Len(rest))),
                                     pat, repl)
             ELSE <<Head(str)>> \o SubSpaced(Tail(str), pat, repl)

\* lines 115-147
normalize_danda(text) ==
    LET mapped == Flatten([k \in 1..Len(text) |-> DandaReplacement(text[k])])
        fixed == Replace(mapped, <<"|", "|", "|">>, <<"|", "|">>)
        doubles == SubSpaced(fixed, <<"|", "|">>, <<" ", "|", "|", " ">>)
        singles == SubSpaced(doubles, <<"|">>, <<" ", "|", " ">>)
    IN  normalize_whitespace(singles)

\* lines 181-218; sv, nd and nw are strip_svaras, normalize_dandas, normalize_ws
normalize_text(text, sv, nd, nw) ==
    LET composed == to_nfc(text)
        stripped == IF sv THEN strip_svara_marks(composed) ELSE composed
    IN  IF nd THEN normalize_danda(stripped)
        ELSE IF nw THEN normalize_whitespace(stripped)
        ELSE stripped

(***************************************************************************)
(* pada_sandhi.py: split_padas and the sandhi profile of a pada            *)
(***************************************************************************)
RECURSIVE SplitBar(_, _)
\* str.split("|"): cur is the field being read
SplitBar(str, cur) ==
    IF str = <<>> THEN <<cur>>
    ELSE IF Head(str) = "|" THEN <<cur>> \o SplitBar(Tail(str), <<>>)
    ELSE SplitBar(Tail(str), Append(cur, Head(str)))

RECURSIVE SplitWords(_, _)
\* str.split(): the maximal runs without whitespace; cur is the run being read
SplitWords(str, cur) ==
    IF str = <<>> THEN (IF cur = <<>> THEN <<>> ELSE <<cur>>)
    ELSE IF Head(str) \in WHITESPACE
    THEN (IF cur = <<>> THEN <<>> ELSE <<cur>>) \o SplitWords(Tail(str), <<>>)
    ELSE SplitWords(Tail(str), Append(cur, Head(str)))

\* lines 96-106
_is_consonant_like(ch) ==
    /\ ch \notin {"a", "aa", "i", "ii", "u", "uu", "vr", "vrr", "vl", "vll",
                  "e", "ai", "o", "au",
                  "-aa", "-i", "-ii", "-u", "-uu", "-vr", "-vrr", "-vl", "-vll",
                  "-e", "-ai", "-o", "-au"}
    /\ ch \notin {ANUSVARA, VISARGA, CANDRABINDU}
    /\ ch \notin WHITESPACE

\* lines 87-90: the pairs of neighbours of w that are both consonant-like
ClusterCount(w) ==
    Cardinality({k \in 1..(Len(w) - 1) :
                    _is_consonant_like(w[k]) /\ _is_consonant_like(w[k + 1])})

\* the number of k in 1..Len(ws) for which ws[k] ends with the character ch
EndsWithCount(ws, ch) ==
    Cardinality({k \in 1..Len(ws) : ws[k][Len(ws[k])] = ch})

RECURSIVE ClusterSum(_)
ClusterSum(ws) ==
    IF ws = <<>> THEN 0 ELSE ClusterCount(Head(ws)) + ClusterSum(Tail(ws))

compute_sandhi_profile(pada_text) ==
    LET words == SplitWords(pada_text, <<>>)
    IN  [word_final_visarga |-> EndsWithCount(words, VISARGA),
         word_final_anusvara |-> EndsWithCount(words, ANUSVARA),
         internal_clusters |-> ClusterSum(words)]

\* mutant: a chunk loses its leading whitespace only
StripChunk_Left(c) == LStrip(c)

\* line 50: c.strip(), the text of the chunk
StripChunk(c) == Strip(c)

\* mutant: an empty chunk is kept as well
KeepChunk_All(c) == TRUE

\* line 50: if c.strip()
KeepChunk(c) == Strip(c) # <<>>

RECURSIVE StripChunks(_)
\* line 50: [c.strip() for c in parts if c.strip()]
StripChunks(parts) ==
    IF parts = <<>> THEN <<>>
    ELSE IF KeepChunk(Head(parts))
    THEN <<StripChunk(Head(parts))>> \o StripChunks(Tail(parts))
    ELSE StripChunks(Tail(parts))

\* lines 49-50: the chunks of a verse
ChunksOf(normalized_text) ==
    StripChunks(SplitBar(Replace(normalized_text, <<"|", "|">>, <<"|">>), <<>>))

\* lines 53-54: the Pada of the chunk at idx (0-based)
PadaOf(chunk, idx) ==
    [text |-> chunk, index |-> idx, sandhi_profile |-> compute_sandhi_profile(chunk)]

\* split_padas as a function of its argument
split_padas(normalized_text) ==
    LET cs == ChunksOf(normalized_text)
    IN  [k \in 1..Len(cs) |-> PadaOf(cs[k], k - 1)]

(***************************************************************************)
(* State                                                                   *)
(***************************************************************************)
VARIABLES
    chars,      \* syllabify_line: list(text)
    i,          \* syllabify_line: index of the next character
    aksharas,   \* syllabify_line: aksharas emitted so far
    cur_text,   \* syllabify_line: buffer of the open akshara
    cur_vowel,  \* syllabify_line: nucleus of the open akshara, or None
    cur_coda,   \* syllabify_line: coda buffer of the open akshara
    LG,         \* syllabify_line: returned L/G string (empty until it returns)
    ganas,      \* syllabify_line: returned ganas (empty until it returns)
    pc,         \* syllabify_line: "loop" | "done"
    CHANDA_RULES,             \* rule_based_classifier: the table loaded at import
    pada_count,               \* classify_rule_based: argument
    syllable_count_per_pada,  \* classify_rule_based: argument (a str)
    counts,                   \* classify_rule_based: the parsed counts
    rule,                     \* classify_rule_based: position of the Layer-1 rule, 0 for None
    raised,                   \* classify_rule_based: the exception it raised, or None
    result,                   \* classify_rule_based: Some(RuleBasedResult), or NoValue
    cpc,                      \* classify_rule_based: "idle" | "returned" | "raised"
    normalized_text,  \* split_padas: argument
    chunks,           \* split_padas: the stripped non-empty chunks
    padas,            \* split_padas: the padas appended so far
    ppc,              \* split_padas: "start" | "loop" | "done"
    text_in,          \* normalization: the text given to the call
    strip_svaras,     \* normalize_text: flag
    normalize_dandas, \* normalize_text: flag
    normalize_ws,     \* normalize_text: flag
    text_out,         \* normalization: the text returned
    npc,              \* normalization: "idle" | "normalize_danda" | "normalize_text"
    raw_cell,         \* parse_chanda_cell: argument
    parsed_list,      \* parse_chanda_cell: the returned list of ParsedChanda objects
    actual_syllables_per_pada, \* compute_deviation_D: argument of the last call
    dcalls,           \* compute_deviation_D: calls made on parsed_list[0]
    chpc,             \* chanda_parser: "idle" | "parsed"
    callers,          \* classify_rule_based: the locals of each concurrent caller
    syllable_counts,  \* extract_features_for_mantra: counts appended so far
    fpc               \* pipeline: "idle" | "normalized" | "split" | "joined" | "classified"

sylVars == <<chars, i, aksharas, cur_text, cur_vowel, cur_coda, LG, ganas, pc>>

clsVars ==
    <<CHANDA_RULES, pada_count, syllable_count_per_pada, counts, rule, raised, result, cpc>>

padVars == <<normalized_text, chunks, padas, ppc>>

normVars == <<text_in, strip_svaras, normalize_dandas, normalize_ws, text_out, npc>>

parVars == <<raw_cell, parsed_list, actual_syllables_per_pada, dcalls, chpc>>

callVars == <<callers>>

pipeVars == <<syllable_counts, fpc>>

vars == <<sylVars, clsVars, padVars, normVars, parVars, callVars, pipeVars>>

\* the characters the pada texts of the model are made of
Alphabet == {"ra", "ma", "a", "aa", "-aa", "-i", "visarga", "udatta", " ", "|"}

Locals ==
    [aksharas |-> aksharas, cur_text |-> cur_text,
     cur_vowel |-> cur_vowel, cur_coda |-> cur_coda]

SetLocals(st) ==
    /\ aksharas' = st.aksharas
    /\ cur_text' = st.cur_text
    /\ cur_vowel' = st.cur_vowel
    /\ cur_coda' = st.cur_coda

\* no call of syllabify_line is under way
SylIdle ==
    /\ i = 0
    /\ aksharas = <<>>
    /\ cur_text = <<>>
    /\ cur_vowel = None
    /\ cur_coda = <<>>
    /\ LG = <<>>
    /\ ganas = <<>>
    /\ pc = "loop"

\* no call of classify_rule_based has been made
ClsIdle ==
    /\ pada_count = 0
    /\ syllable_count_per_pada = <<>>
    /\ counts = <<>>
    /\ rule = 0
    /\ raised = None
    /\ result = NoValue
    /\ cpc = "idle"

\* split_padas has not been given a verse
PadIdle ==
    /\ normalized_text = <<>>
    /\ chunks = <<>>
    /\ padas = <<>>
    /\ ppc = "start"

\* no normalization call has been made; the flags have their defaults
NormIdle ==
    /\ text_in = <<>>
    /\ strip_svaras = FALSE
    /\ normalize_dandas = TRUE
    /\ normalize_ws = TRUE
    /\ text_out = <<>>
    /\ npc = "idle"

\* parse_chanda_cell has not been given a cell
ParIdle ==
    /\ raw_cell = <<>>
    /\ parsed_list = <<>>
    /\ actual_syllables_per_pada = NoValue
    /\ dcalls = 0
    /\ chpc = "idle"

\* nobody calls classify_rule_based concurrently
CallIdle == callers = <<>>

\* extract_features_for_mantra has not been called
PipeIdle == syllable_counts = <<>> /\ fpc = "idle"

\* syllabify_line entered with any text of the alphabet; no rule table
SylInit ==
    /\ chars \in SeqsUpTo(Alphabet, MaxLen)
    /\ SylIdle
    /\ CHANDA_RULES = <<>>
    /\ ClsIdle
    /\ PadIdle
    /\ NormIdle
    /\ ParIdle
    /\ CallIdle
    /\ PipeIdle

\* the guard of the while loop and the advance of i shared by every branch
Reading == pc = "loop" /\ i < Len(chars)

Advance == i' = i + 1 /\ UNCHANGED <<chars, LG, ganas, pc, clsVars, padVars, normVars, parVars, callVars, pipeVars>>

ReadSeparator ==
    /\ Reading
    /\ IsSeparator(chars[i + 1])
    /\ SetLocals(OnSeparator(Locals))
    /\ Advance

ReadIndependentVowel ==
    /\ Reading
    /\ ~IsSeparator(chars[i + 1])
    /\ _is_independent_vowel(chars[i + 1])
    /\ SetLocals(OnIndependentVowel(Locals, chars[i + 1]))
    /\ Advance

ReadConsonant ==
    /\ Reading
    /\ ~IsSeparator(chars[i + 1])
    /\ ~_is_independent_vowel(chars[i + 1])
    /\ _is_consonant(chars[i + 1])
    /\ SetLocals(OnConsonant(Locals, chars[i + 1]))
    /\ Advance

ReadDependentVowel ==
    /\ Reading
    /\ ~IsSeparator(chars[i + 1])
    /\ ~_is_independent_vowel(chars[i + 1])
    /\ ~_is_consonant(chars[i + 1])
    /\ _is_dependent_vowel(chars[i + 1])
    /\ SetLocals(OnDependentVowel(Locals, chars[i + 1]))
    /\ Advance

ReadMark ==
    /\ Reading
    /\ ~IsSeparator(chars[i + 1])
    /\ ~_is_independent_vowel(chars[i + 1])
    /\ ~_is_consonant(chars[i + 1])
    /\ ~_is_dependent_vowel(chars[i + 1])
    /\ _is_mark(chars[i + 1])
    /\ SetLocals(OnMark(Locals, chars[i + 1]))
    /\ Advance

ReadOther ==
    /\ Reading
    /\ IsOther(chars[i + 1])
    /\ SetLocals(OnOther(Locals, chars[i + 1]))
    /\ Advance

\* lines 205-210: the final flush, LG, ganas and the return
Finish ==
    /\ pc = "loop"
    /\ i >= Len(chars)
    /\ LET st == flush_current(Locals)
       IN  /\ SetLocals(st)
           /\ LG' = LGOf(st.aksharas)
           /\ ganas' = lg_to_ganas(LGOf(st.aksharas))
    /\ pc' = "done"
    /\ UNCHANGED <<chars, i, clsVars, padVars, normVars, parVars, callVars, pipeVars>>

SylNext ==
    \/ ReadSeparator
    \/ ReadIndependentVowel
    \/ ReadConsonant
    \/ ReadDependentVowel
    \/ ReadMark
    \/ ReadOther
    \/ Finish

SylSpec == SylInit /\ [][SylNext]_vars

\* syllabify_line entered with any text of up to MaxFairLen characters
SylFairInit ==
    /\ chars \in SeqsUpTo(Alphabet, MaxFairLen)
    /\ SylIdle
    /\ CHANDA_RULES = <<>>
    /\ ClsIdle
    /\ PadIdle
    /\ NormIdle
    /\ ParIdle
    /\ CallIdle
    /\ PipeIdle

\* the call keeps running until it returns
SylFairSpec == SylFairInit /\ [][SylNext]_vars /\ WF_vars(SylNext)

(***************************************************************************)
(* The classifier as a state machine: the table is loaded at import, then  *)
(* classify_rule_based is called with one (pada_count, counts string).     *)
(***************************************************************************)
\* rule records as build_chanda_rules writes them: label, count >= 1,
\* pada_count and syllable_pattern (or None), max_diff_tolerance, base_family
RulePool ==
    { [label |-> <<"anushtubh">>, count |-> 3, pada_count |-> Some(4),
       syllable_pattern |-> Some(<<8, 8, 8, 8>>), max_diff_tolerance |-> 1,
       base_family |-> "anushtubh"],
      [label |-> <<"arshi", "anushtubh">>, count |-> 7, pada_count |-> Some(4),
       syllable_pattern |-> Some(<<8, 8, 8, 8>>), max_diff_tolerance |-> 2,
       base_family |-> "anushtubh"],
      [label |-> <<"bhurik", "anushtubh">>, count |-> 2, pada_count |-> Some(4),
       syllable_pattern |-> Some(<<9, 8, 8, 8>>), max_diff_tolerance |-> 1,
       base_family |-> "anushtubh"],
      [label |-> <<"svaraj", "gayatri">>, count |-> 1, pada_count |-> Some(3),
       syllable_pattern |-> Some(<<11, 11, 11>>), max_diff_tolerance |-> 0,
       base_family |-> "gayatri"],
      [label |-> <<"yajus">>, count |-> 4, pada_count |-> Some(4),
       syllable_pattern |-> Some(<<11, 11, 11, 11>>), max_diff_tolerance |-> 1,
       base_family |-> None],
      [label |-> <<"atijagati">>, count |-> 1, pada_count |-> Some(4),
       syllable_pattern |-> Some(<<13, 13, 13, 13>>), max_diff_tolerance |-> 1,
       base_family |-> "atijagati"],
      [label |-> <<"ekapada">>, count |-> 1, pada_count |-> NoValue,
       syllable_pattern |-> NoValue, max_diff_tolerance |-> 0,
       base_family |-> None] }

\* a table is a list of rules with pairwise different labels (one rule per label)
RuleTables ==
    {t \in SeqsUpTo(RulePool, MaxRules) :
        \A j, k \in 1..Len(t) : j # k => t[j].label # t[k].label}

\* the counts all padas but one have in an input: the canonical targets
BaseCounts == {BASE_METER_SYLLABLES[k].target : k \in 1..Len(BASE_METER_SYLLABLES)}

\* per-pada counts: n everywhere except for the first or the second pada, which
\* is at n + d; or no pada at all
CountsInputs ==
    {<<>>} \cup
    UNION { { [k \in 1..len |-> IF k = pos THEN n + d ELSE n] :
                n \in BaseCounts, pos \in {1, 2}, d \in (-MaxDev)..MaxDev } :
            len \in 1..MaxPadas }

\* strings no join of counts produces: an empty field, padded fields, a non-number
ExtraStrings ==
    { <<"8", ",", ",", "8">>,
      <<" ", "8", ",", "8", " ", ",", "8">>,
      <<"8", ",", "x", ",", "8", ",", "8">> }

ArgStrings == {JoinCounts(c) : c \in CountsInputs} \cup ExtraStrings

\* the module imported with any table; no call made yet
ClsInit ==
    /\ CHANDA_RULES \in RuleTables
    /\ ClsIdle
    /\ chars = <<>>
    /\ SylIdle
    /\ PadIdle
    /\ NormIdle
    /\ ParIdle
    /\ CallIdle
    /\ PipeIdle

\* one call of classify_rule_based(pada_count, syllable_count_per_pada)
Classify ==
    /\ cpc = "idle"
    /\ \E pcount \in 0..MaxPadas, str \in ArgStrings :
          \E out \in {classify_rule_based(CHANDA_RULES, pcount, str)} :
              /\ pada_count' = pcount
              /\ syllable_count_per_pada' = str
              /\ counts' = out.counts
              /\ rule' = out.rule
              /\ raised' = out.raised
              /\ result' = out.result
              /\ cpc' = IF out.raised = None THEN "returned" ELSE "raised"
    /\ UNCHANGED <<CHANDA_RULES, sylVars, padVars, normVars, parVars, callVars, pipeVars>>

ClsNext == Classify

ClsSpec == ClsInit /\ [][ClsNext]_vars

(***************************************************************************)
(* The classifier over any table json.load can give: next to rules as      *)
(* build_chanda_rules derives them from counted verses, a rule whose       *)
(* pattern is empty (_parse_syllable_pattern gives () for a counts string  *)
(* without any number, such as ",") and a rule whose pattern has an entry  *)
(* that is not a number.                                                   *)
(***************************************************************************)
DegenerateRules ==
    { [label |-> <<"unmeasured">>, count |-> 1, pada_count |-> Some(0),
       syllable_pattern |-> Some(<<>>), max_diff_tolerance |-> 0,
       base_family |-> None],
      [label |-> <<"damaged">>, count |-> 5, pada_count |-> Some(4),
       syllable_pattern |-> Some(<<8, NonNumeric, 8, 8>>), max_diff_tolerance |-> 1,
       base_family |-> "anushtubh"] }

DataRulePool ==
    {r \in RulePool : r.label \in {<<"anushtubh">>, <<"arshi", "anushtubh">>}}
        \cup DegenerateRules

DataRuleTables ==
    {t \in SeqsUpTo(DataRulePool, MaxRules) :
        \A j, k \in 1..Len(t) : j # k => t[j].label # t[k].label}

ClsDataInit ==
    /\ CHANDA_RULES \in DataRuleTables
    /\ ClsIdle
    /\ chars = <<>>
    /\ SylIdle
    /\ PadIdle
    /\ NormIdle
    /\ ParIdle
    /\ CallIdle
    /\ PipeIdle

ClsDataSpec == ClsDataInit /\ [][ClsNext]_vars

(***************************************************************************)
(* split_padas as a state machine: the chunks are computed (lines 49-50),  *)
(* then one Pada is appended per chunk (lines 52-54), then the list is     *)
(* returned.                                                               *)
(***************************************************************************)
\* the characters the verse texts of the model are made of
PadaAlphabet == {"ra", "om", "visarga", " ", "|"}

\* split_padas entered with any text of the alphabet
PadInit ==
    /\ normalized_text \in SeqsUpTo(PadaAlphabet, MaxVerseLen)
    /\ chunks = <<>>
    /\ padas = <<>>
    /\ ppc = "start"
    /\ chars = <<>>
    /\ SylIdle
    /\ CHANDA_RULES = <<>>
    /\ ClsIdle
    /\ NormIdle
    /\ ParIdle
    /\ CallIdle
    /\ PipeIdle

\* lines 49-50
SplitChunks ==
    /\ ppc = "start"
    /\ chunks' = ChunksOf(normalized_text)
    /\ ppc' = "loop"
    /\ UNCHANGED <<normalized_text, padas, sylVars, clsVars, normVars, parVars, callVars, pipeVars>>

\* lines 52-54: one iteration of the loop over enumerate(chunks)
AppendPada ==
    /\ ppc = "loop"
    /\ Len(padas) < Len(chunks)
    /\ padas' = Append(padas, PadaOf(chunks[Len(padas) + 1], Len(padas)))
    /\ UNCHANGED <<normalized_text, chunks, ppc, sylVars, clsVars, normVars, parVars, callVars, pipeVars>>

\* line 55
ReturnPadas ==
    /\ ppc = "loop"
    /\ Len(padas) = Len(chunks)
    /\ ppc' = "done"
    /\ UNCHANGED <<normalized_text, chunks, padas, sylVars, clsVars, normVars, parVars, callVars, pipeVars>>

PadNext == SplitChunks \/ AppendPada \/ ReturnPadas

PadSpec == PadInit /\ [][PadNext]_vars

(***************************************************************************)
(* The normalization functions called on a text                            *)
(***************************************************************************)
\* a letter, an accent mark, the space and the five danda characters
NormAlphabet == {"qa", "udatta", " ", "danda", "double_danda", "|", "/", "\\"}

NormInit ==
    /\ text_in \in SeqsUpTo(NormAlphabet, MaxTextLen)
    /\ strip_svaras = FALSE
    /\ normalize_dandas = TRUE
    /\ normalize_ws = TRUE
    /\ text_out = <<>>
    /\ npc = "idle"
    /\ chars = <<>>
    /\ SylIdle
    /\ CHANDA_RULES = <<>>
    /\ ClsIdle
    /\ PadIdle
    /\ ParIdle
    /\ CallIdle
    /\ PipeIdle

\* one call of normalize_danda(text_in)
NormalizeDanda ==
    /\ npc = "idle"
    /\ text_out' = normalize_danda(text_in)
    /\ npc' = "normalize_danda"
    /\ UNCHANGED <<text_in, strip_svaras, normalize_dandas, normalize_ws,
                   sylVars, clsVars, padVars, parVars, callVars, pipeVars>>

\* one call of normalize_text(text_in, strip_svaras=sv, normalize_dandas=nd,
\* normalize_ws=nw)
NormalizeText ==
    /\ npc = "idle"
    /\ \E sv, nd, nw \in BOOLEAN :
          /\ strip_svaras' = sv
          /\ normalize_dandas' = nd
          /\ normalize_ws' = nw
          /\ text_out' = normalize_text(text_in, sv, nd, nw)
    /\ npc' = "normalize_text"
    /\ UNCHANGED <<text_in, sylVars, clsVars, padVars, parVars, callVars, pipeVars>>

NormNext == NormalizeDanda \/ NormalizeText

NormSpec == NormInit /\ [][NormNext]_vars

(***************************************************************************)
(* chanda_parser.py.  A chanda cell is a sequence of units: the comma, the *)
(* space and words.  A word form of the lookup tables is one unit, written *)
(* by its transliteration ("gAyatrI" is the Devanagari word gayatri of     *)
(* DEVANAGARI_BASE_METER_MAP, "svarAD" the Devanagari svarad of            *)
(* DEVANAGARI_DEVIATION_TOKENS, "brAhmI" the Devanagari brahmi, which no   *)
(* table holds); "Jagati_latin" is the Latin-script word Jagati written    *)
(* with a capital and a macron.  A token is the sequence of the units      *)
(* written without a space between them; a normalized one-word token is    *)
(* <<name>>.                                                               *)
(***************************************************************************)
\* most units of a chanda cell
MaxCellLen == 4

\* most calls of compute_deviation_D on one ParsedChanda
MaxCalls == 2

\* BASE_METER_SYLLABLES.get(fam) of chanda_parser.py
ParserTarget(fam) ==
    CASE fam \in {"gayatri", "anushtubh", "pankti"} -> Some(8)
      [] fam = "ushnih" -> Some(7)
      [] fam = "brihati" -> Some(9)
      [] fam = "trishtubh" -> Some(11)
      [] fam = "jagati" -> Some(12)
      [] OTHER -> NoValue

DEVIATION_LABELS == {"nichrid", "bhurik", "viraj", "svaraj"}

\* DEVANAGARI_BASE_METER_MAP.get(l), for the word forms of the model
DEVANAGARI_BASE_METER_MAP(l) ==
    CASE l = <<"gAyatrI">> -> "gayatri"
      [] l = <<"bRhatI">> -> "brihati"
      [] OTHER -> None

\* DEVANAGARI_DEVIATION_TOKENS.get(l), for the word forms of the model
DEVANAGARI_DEVIATION_TOKENS(l) ==
    CASE l = <<"svarAD">> -> "svaraj"
      [] OTHER -> None

\* the chain of replace() calls and lower() on one unit: a Devanagari word
\* has no character they change
AsciiOfUnit(u) == IF u = "Jagati_latin" THEN "jagati" ELSE u

_normalize_ascii_token(tok) == [k \in 1..Len(tok) |-> AsciiOfUnit(tok[k])]

normalize_label(label) ==
    LET l == Strip(label)
    IN  IF l = <<>> THEN <<>>
        ELSE IF DEVANAGARI_BASE_METER_MAP(l) # None
        THEN <<DEVANAGARI_BASE_METER_MAP(l)>>
        ELSE IF DEVANAGARI_DEVIATION_TOKENS(l) # None
        THEN <<DEVANAGARI_DEVIATION_TOKENS(l)>>
        ELSE _normalize_ascii_token(l)

\* tok in BASE_METER_SYLLABLES
IsBaseMeterToken(tok) == Len(tok) = 1 /\ ParserTarget(tok[1]) # NoValue

\* tok in DEVIATION_LABELS
IsDeviationToken(tok) == Len(tok) = 1 /\ tok[1] \in DEVIATION_LABELS

RECURSIVE TokenLoop(_, _)
\* lines 233-239: the loop over norm_tokens
TokenLoop(acc, norm_tokens) ==
    IF norm_tokens = <<>> THEN acc
    ELSE LET tok == Head(norm_tokens)
         IN  TokenLoop(IF IsBaseMeterToken(tok) THEN [acc EXCEPT !.base_meter = tok[1]]
                       ELSE IF IsDeviationToken(tok)
                       THEN [acc EXCEPT !.deviation_label = tok[1]]
                       ELSE IF tok # <<>>
                       THEN [acc EXCEPT !.variant_prefixes = Append(@, tok)]
                       ELSE acc,
                       Tail(norm_tokens))

\* lines 226-249: the ParsedChanda of one component
ParseComponent(comp) ==
    LET tokens == SplitWords(comp, <<>>)
        norm_tokens == [k \in 1..Len(tokens) |-> normalize_label(tokens[k])]
    IN  TokenLoop([raw |-> comp, base_meter |-> None, variant_prefixes |-> <<>>,
                   deviation_label |-> None, deviation_D |-> NoValue],
                  norm_tokens)

RECURSIVE StripComponents(_)
StripComponents(parts) ==
    IF parts = <<>> THEN <<>>
    ELSE IF Strip(Head(parts)) # <<>>
    THEN <<Strip(Head(parts))>> \o StripComponents(Tail(parts))
    ELSE StripComponents(Tail(parts))

\* line 222: [c.strip() for c in str(raw_cell).split(",") if c.strip()]
ComponentsOf(cell) == StripComponents(SplitComma(cell, <<>>))

parse_chanda_cell(cell) ==
    IF cell = <<>> THEN <<>>
    ELSE LET components == ComponentsOf(cell)
         IN  [k \in 1..Len(components) |-> ParseComponent(components[k])]

infer_deviation_label_from_D(D) ==
    IF D = -1 THEN "nichrid"
    ELSE IF D = 1 THEN "bhurik"
    ELSE IF D = 2 THEN "viraj"
    ELSE IF D >= 3 THEN "svaraj"
    ELSE None

\* compute_deviation_D: the object after the call (it is changed in place and
\* returned); actual is NoValue for None
compute_deviation_D(parsed, actual) ==
    IF parsed.base_meter = None \/ actual = NoValue THEN parsed
    ELSE IF ParserTarget(parsed.base_meter) = NoValue THEN parsed
    ELSE LET D == Val(actual) - Val(ParserTarget(parsed.base_meter))
             inferred == infer_deviation_label_from_D(D)
         IN  [parsed EXCEPT !.deviation_D = Some(D),
                            !.deviation_label =
                                IF @ = None /\ inferred # None THEN inferred ELSE @]

\* the units the cells of the model are made of
CellAlphabet == {"gAyatrI", "bRhatI", "svarAD", "brAhmI", "Jagati_latin", " ", ","}

\* the counts of a first pada handed to compute_deviation_D
ActualCounts == {6, 8, 9, 12}

ParInit ==
    /\ raw_cell \in SeqsUpTo(CellAlphabet, MaxCellLen)
    /\ parsed_list = <<>>
    /\ actual_syllables_per_pada = NoValue
    /\ dcalls = 0
    /\ chpc = "idle"
    /\ chars = <<>>
    /\ SylIdle
    /\ CHANDA_RULES = <<>>
    /\ ClsIdle
    /\ PadIdle
    /\ NormIdle
    /\ CallIdle
    /\ PipeIdle

\* parsed_list = parse_chanda_cell(raw_cell)
ParseCell ==
    /\ chpc = "idle"
    /\ parsed_list' = parse_chanda_cell(raw_cell)
    /\ chpc' = "parsed"
    /\ UNCHANGED <<raw_cell, actual_syllables_per_pada, dcalls,
                   sylVars, clsVars, padVars, normVars, callVars, pipeVars>>

\* compute_deviation_D(parsed_list[0], n), as build_dataset.py calls it on the
\* first object of the list, with a count or None
ComputeDeviation ==
    /\ chpc = "parsed"
    /\ parsed_list # <<>>
    /\ dcalls < MaxCalls
    /\ \E n \in {NoValue} \cup {Some(c) : c \in ActualCounts} :
          /\ parsed_list' = [parsed_list EXCEPT ![1] = compute_deviation_D(@, n)]
          /\ actual_syllables_per_pada' = n
    /\ dcalls' = dcalls + 1
    /\ UNCHANGED <<raw_cell, chpc, sylVars, clsVars, padVars, normVars, callVars, pipeVars>>

ParNext == ParseCell \/ ComputeDeviation

ParSpec == ParInit /\ [][ParNext]_vars

(***************************************************************************)
(* classify_rule_based called by several callers at once (the requests of  *)
(* api.py) and again and again: every call has its own locals and runs     *)
(* lines 261-264, then Layer 1, then the rest; the steps of different      *)
(* calls interleave.  CHANDA_RULES is the one object the calls share.  The *)
(* two formatted notes of lines 263-264 are written out here: the first is *)
(* the parsed counts, the second the pair of pada_count and source_veda.   *)
(***************************************************************************)
\* callers running at the same time
NumCallers == 2

Callers == 1..NumCallers

\* the locals of a caller that has not called yet
IdleCaller ==
    [pc |-> "idle", pada_count |-> 0, syllable_count_per_pada |-> <<>>,
     source_veda |-> "unknown", counts |-> <<>>, notes |-> <<>>,
     rule |-> 0, raised |-> None, result |-> NoValue]

\* the source_veda arguments: the default and a detected veda
SourceVedas == {"unknown", "rigveda"}

\* the count strings of the calls; the second parses to the counts of the first
CallStrings ==
    { JoinCounts(<<8, 8, 8, 8>>),
      <<"8", ",", " ", "8", ",", "8", ",", "8">>,
      JoinCounts(<<9, 8, 8, 8>>) }

CallTables ==
    {t \in RuleTables :
        \A k \in 1..Len(t) : t[k].label \in {<<"anushtubh">>, <<"bhurik", "anushtubh">>}}

\* mutant: Layer 1 counts the use of the rule it returns in the rule's support
TableAfterMatch_CountsUse(rules, k) ==
    IF k = 0 THEN rules ELSE [rules EXCEPT ![k].count = @ + 1]

\* CHANDA_RULES after _match_chanda_rule returned the rule at position k: the
\* function reads the global and the rule dicts and assigns to neither
TableAfterMatch(rules, k) == rules

CallInit ==
    /\ CHANDA_RULES \in CallTables
    /\ callers = [c \in Callers |-> IdleCaller]
    /\ ClsIdle
    /\ chars = <<>>
    /\ SylIdle
    /\ PadIdle
    /\ NormIdle
    /\ ParIdle
    /\ PipeIdle

\* a caller enters classify_rule_based(pada_count, syllable_count_per_pada,
\* source_veda), for the first time or after its last call returned
CallEnter(c) ==
    /\ callers[c].pc \in {"idle", "returned"}
    /\ \E str \in CallStrings, veda \in SourceVedas :
          callers' = [callers EXCEPT ![c] =
                         [IdleCaller EXCEPT !.pc = "entered",
                                            !.pada_count = 4,
                                            !.syllable_count_per_pada = str,
                                            !.source_veda = veda]]
    /\ UNCHANGED <<sylVars, clsVars, padVars, normVars, parVars, pipeVars>>

\* lines 261-264
CallParse(c) ==
    /\ callers[c].pc = "entered"
    /\ LET cs == _parse_counts(callers[c].syllable_count_per_pada)
       IN  callers' = [callers EXCEPT ![c].counts = cs,
                                      ![c].notes = <<cs, <<callers[c].pada_count,
                                                           callers[c].source_veda>>>>,
                                      ![c].pc = "parsed"]
    /\ UNCHANGED <<sylVars, clsVars, padVars, normVars, parVars, pipeVars>>

\* lines 267-268: Layer 1 reads the shared table
CallMatch(c) ==
    /\ callers[c].pc = "parsed"
    /\ \E m \in {_match_chanda_rule(CHANDA_RULES, callers[c].pada_count, callers[c].counts)} :
          /\ callers' = [callers EXCEPT ![c].rule = m.rule,
                                        ![c].raised = m.raised,
                                        ![c].notes = @ \o m.notes,
                                        ![c].pc = "matched"]
          /\ CHANDA_RULES' = TableAfterMatch(CHANDA_RULES, m.rule)
    /\ UNCHANGED <<sylVars, pada_count, syllable_count_per_pada, counts, rule, raised,
                   result, cpc, padVars, normVars, parVars, pipeVars>>

\* lines 270-326: the rule found is read through the table, the notes of the
\* call are extended and the result is returned
CallReturn(c) ==
    /\ callers[c].pc = "matched"
    /\ LET me == callers[c]
           m == [rule |-> me.rule, raised |-> me.raised,
                 notes |-> SubSeq(me.notes, 3, Len(me.notes))]
           out == ClassifyBody(CHANDA_RULES, me.pada_count, me.counts, m)
       IN  callers' =
               [callers EXCEPT ![c].pc = IF out.raised = None THEN "returned" ELSE "raised",
                               ![c].result =
                                   IF out.raised # None THEN NoValue
                                   ELSE Some([Val(out.result) EXCEPT !.notes =
                                            me.notes \o SubSeq(@, Len(me.notes) + 1, Len(@))])]
    /\ UNCHANGED <<sylVars, clsVars, padVars, normVars, parVars, pipeVars>>

CallNext ==
    \E c \in Callers : CallEnter(c) \/ CallParse(c) \/ CallMatch(c) \/ CallReturn(c)

CallSpec == CallInit /\ [][CallNext]_vars

(***************************************************************************)
(* The way of a text to the classifier: extract_features_for_mantra        *)
(* (normalize_text with the svaras kept, split_padas, syllabify_line on    *)
(* every pada, the counts joined by commas), then classify_rule_based      *)
(* with the pada_count and the joined counts, as api.py and                *)
(* analyze_text.py call it.                                                *)
(***************************************************************************)
\* longest text given to the pipeline
MaxPipeLen == 4

\* letters (one of them not in canonical form), a mark, an accent, the space
\* and two boundary characters
PipeAlphabet == {"ra", "qa", "visarga", "udatta", " ", "danda", "|"}

PipeInit ==
    /\ text_in \in SeqsUpTo(PipeAlphabet, MaxPipeLen)
    /\ strip_svaras = FALSE
    /\ normalize_dandas = TRUE
    /\ normalize_ws = TRUE
    /\ text_out = <<>>
    /\ npc = "idle"
    /\ syllable_counts = <<>>
    /\ fpc = "idle"
    /\ chars = <<>>
    /\ SylIdle
    /\ CHANDA_RULES = <<>>
    /\ ClsIdle
    /\ PadIdle
    /\ ParIdle
    /\ CallIdle

\* norm = normalize_text(text_dev_original, strip_svaras=False)
PipeNormalize ==
    /\ fpc = "idle"
    /\ text_out' = normalize_text(text_in, FALSE, TRUE, TRUE)
    /\ npc' = "normalize_text"
    /\ fpc' = "normalized"
    /\ UNCHANGED <<text_in, strip_svaras, normalize_dandas, normalize_ws, syllable_counts,
                   sylVars, clsVars, padVars, parVars, callVars>>

\* padas = split_padas(norm)
PipeSplit ==
    /\ fpc = "normalized"
    /\ normalized_text' = text_out
    /\ chunks' = ChunksOf(text_out)
    /\ padas' = split_padas(text_out)
    /\ ppc' = "done"
    /\ fpc' = "split"
    /\ UNCHANGED <<syllable_counts, sylVars, clsVars, normVars, parVars, callVars>>

\* one iteration of the loop over the padas: syllabify_line(p.text) runs to its
\* return and len(aksharas) is appended
PipeSyllabify ==
    /\ fpc = "split"
    /\ Len(syllable_counts) < Len(padas)
    /\ \E out \in {syllabify_line(padas[Len(syllable_counts) + 1].text)} :
          /\ chars' = padas[Len(syllable_counts) + 1].text
          /\ i' = Len(chars')
          /\ SetLocals([EmptyLocals EXCEPT !.aksharas = out.aksharas])
          /\ LG' = out.LG
          /\ ganas' = out.ganas
          /\ pc' = "done"
          /\ syllable_counts' = Append(syllable_counts, Len(out.aksharas))
    /\ UNCHANGED <<fpc, clsVars, padVars, normVars, parVars, callVars>>

\* pada_count = len(padas); syllable_count_per_pada = ",".join(str(c) ...)
PipeJoin ==
    /\ fpc = "split"
    /\ Len(syllable_counts) = Len(padas)
    /\ pada_count' = Len(padas)
    /\ syllable_count_per_pada' = JoinCounts(syllable_counts)
    /\ fpc' = "joined"
    /\ UNCHANGED <<syllable_counts, CHANDA_RULES, counts, rule, raised, result, cpc,
                   sylVars, padVars, normVars, parVars, callVars>>

\* classify_rule_based(pada_count, syllable_count_per_pada)
PipeClassify ==
    /\ fpc = "joined"
    /\ \E out \in {classify_rule_based(CHANDA_RULES, pada_count, syllable_count_per_pada)} :
          /\ counts' = out.counts
          /\ rule' = out.rule
          /\ raised' = out.raised
          /\ result' = out.result
          /\ cpc' = IF out.raised = None THEN "returned" ELSE "raised"
    /\ fpc' = "classified"
    /\ UNCHANGED <<syllable_counts, CHANDA_RULES, pada_count, syllable_count_per_pada,
                   sylVars, padVars, normVars, parVars, callVars>>

PipeNext == PipeNormalize \/ PipeSplit \/ PipeSyllabify \/ PipeJoin \/ PipeClassify

PipeSpec == PipeInit /\ [][PipeNext]_vars

(***************************************************************************)
(* Claims about syllabify_line, checked under SylSpec                      *)
(***************************************************************************)
IsKept(ch) == ~IsSeparator(ch)

AksharaTexts == [k \in 1..Len(aksharas) |-> aksharas[k].text]

\* C1: when syllabify_line has returned, the texts of the aksharas, joined in
\* order, are the input with its whitespace and boundary characters removed
\* (nothing dropped, nothing moved).
C1_Reconstruction ==
    pc = "done" => Flatten(AksharaTexts) = SelectSeq(chars, IsKept)

\* C2: every emitted akshara is heavy exactly when its nucleus is long or its
\* coda is non-empty; guru_reason is coda_cluster for a non-empty coda,
\* long_vowel for an empty coda and a long nucleus, short_open otherwise, so
\* short_open exactly when the akshara is light.
C2_WeightAndReason ==
    \A k \in 1..Len(aksharas) :
        LET a == aksharas[k]
            long == a.vowel \in LongVowels
        IN  /\ (L_or_G(a) = "G") <=> (long \/ a.coda # <<>>)
            /\ (L_or_G(a) = "L") <=> ~(long \/ a.coda # <<>>)
            /\ a.coda # <<>> => a.guru_reason = "coda_cluster"
            /\ (a.coda = <<>> /\ long) => a.guru_reason = "long_vowel"
            /\ (a.coda = <<>> /\ ~long) => a.guru_reason = "short_open"
            /\ (a.guru_reason = "short_open") <=> (L_or_G(a) = "L")

\* a returned call that emitted a short-nucleus akshara made heavy by its coda,
\* an akshara heavy by its long nucleus alone, and a light one
C2_Witness ==
    /\ pc = "done"
    /\ \E k \in 1..Len(aksharas) :
          /\ aksharas[k].guru_reason = "coda_cluster"
          /\ aksharas[k].vowel \notin LongVowels
          /\ L_or_G(aksharas[k]) = "G"
    /\ \E k \in 1..Len(aksharas) :
          aksharas[k].guru_reason = "long_vowel" /\ L_or_G(aksharas[k]) = "G"
    /\ \E k \in 1..Len(aksharas) :
          aksharas[k].guru_reason = "short_open" /\ L_or_G(aksharas[k]) = "L"

\* the word of test_simple_word_ram: ra, sign aa, ma, visarga
RamaH == <<"ra", "-aa", "ma", "visarga">>

\* C3: one akshara per vowel nucleus: a consonant arriving after the open
\* syllable has its nucleus begins the next akshara, so the word ra-maH gives
\* exactly two aksharas, both heavy.
C3_OneAksharaPerNucleus ==
    (pc = "done" /\ chars = RamaH) =>
        /\ Len(aksharas) = 2
        /\ LG = <<"G", "G">>

\* C4: the L/G string of a text equals the L/G string of the text with its
\* svara marks stripped, wherever the marks stand.
C4_SvaraNeverAffectsWeight ==
    pc = "done" => LG = syllabify_line(strip_svara_marks(chars)).LG

(***************************************************************************)
(* Claims about classify_rule_based, checked under ClsSpec                 *)
(***************************************************************************)
Returned == cpc = "returned"

\* the returned RuleBasedResult
Res == Val(result)

\* the rule Layer 1 returned (when rule # 0)
TheRule == CHANDA_RULES[rule]

\* Layer 1 gave no base_family: no rule matched, or the matched rule has none
Layer1NoFamily == rule = 0 \/ TheRule.base_family = None

\* the rule r is considered for (pcount, cs) and is within its tolerance
ClaimAccepts(r, pcount, cs) ==
    /\ r.pada_count # NoValue
    /\ r.syllable_pattern # NoValue
    /\ Val(r.pada_count) = pcount
    /\ Len(Val(r.syllable_pattern)) = Len(cs)
    /\ \A k \in 1..Len(cs) :
          Abs(cs[k] - Val(r.syllable_pattern)[k]) <= r.max_diff_tolerance

AcceptedRules ==
    {k \in 1..Len(CHANDA_RULES) : ClaimAccepts(CHANDA_RULES[k], pada_count, counts)}

\* C5: Layer 1 returns a rule only if the rule has the observed pada_count, a
\* pattern as long as the observed counts and max_i |observed_i - pattern_i|
\* <= max_diff_tolerance, and returns one whenever such a rule exists; pattern
\* [8,8,8,8] with tolerance 1 accepts [8,9,8,8] and rejects [8,10,8,8].
C5_CandidateSet ==
    Returned =>
        /\ rule # 0 => rule \in AcceptedRules
        /\ AcceptedRules # {} => rule # 0
        /\ \A k \in 1..Len(CHANDA_RULES) :
              ( /\ CHANDA_RULES[k].syllable_pattern = Some(<<8, 8, 8, 8>>)
                /\ CHANDA_RULES[k].max_diff_tolerance = 1
                /\ CHANDA_RULES[k].pada_count = Some(pada_count) )
              => /\ counts = <<8, 9, 8, 8>> => rule # 0
                 /\ counts = <<8, 10, 8, 8>> => rule # k

\* a rule of tolerance 1 returned for counts at distance exactly 1 from its pattern
C5_Witness ==
    /\ Returned
    /\ rule # 0
    /\ counts = <<8, 9, 8, 8>>
    /\ TheRule.syllable_pattern = Some(<<8, 8, 8, 8>>)
    /\ TheRule.max_diff_tolerance = 1

\* the diff of the rule at position k from the observed counts
DiffOf(k) == MaxAbsDiff(counts, Val(CHANDA_RULES[k].syllable_pattern))

\* C6: the rule Layer 1 returns has the smallest diff among the accepted rules
\* and, among those of smallest diff, the largest support, whatever the order of
\* the rules in the table.
C6_Selection ==
    (Returned /\ rule # 0) =>
        \A k \in AcceptedRules :
            \/ DiffOf(rule) < DiffOf(k)
            \/ /\ DiffOf(rule) = DiffOf(k)
               /\ TheRule.count >= CHANDA_RULES[k].count

\* two accepted rules of equal diff, the one of higher support standing later in
\* the table, and that one returned
C6_Witness ==
    /\ Returned
    /\ \E j, k \in AcceptedRules :
          /\ j < k
          /\ DiffOf(j) = DiffOf(k)
          /\ CHANDA_RULES[k].count > CHANDA_RULES[j].count
          /\ rule = k

\* the exact table of Layer 2 as the specification gives it
ClaimExactTable(pcount, n) ==
    CASE pcount = 3 /\ n = 8 -> "gayatri"
      [] pcount = 4 /\ n = 8 -> "anushtubh"
      [] pcount = 5 /\ n = 8 -> "pankti"
      [] pcount = 4 /\ n = 11 -> "trishtubh"
      [] pcount = 4 /\ n = 12 -> "jagati"
      [] pcount = 4 /\ n = 9 -> "brihati"
      [] pcount \in 2..4 /\ n = 7 -> "ushnih"
      [] OTHER -> None

UniformCounts == counts # <<>> /\ \A k \in 1..Len(counts) : counts[k] = counts[1]

ExactCase == UniformCounts /\ ClaimExactTable(pada_count, counts[1]) # None

\* C7: when Layer 1 yields no base_family and all counts equal n, the result has
\* the family of the exact table for (pada_count, n), deviation_D 0 and no
\* deviation label.
C7_ExactTable ==
    (Returned /\ Layer1NoFamily /\ ExactCase) =>
        /\ Res.base_family = ClaimExactTable(pada_count, counts[1])
        /\ Res.deviation_D = Some(0)
        /\ Res.deviation_label = None

\* four padas of eight syllables without any rule: anushtubh, not the closest
\* family of the table
C7_Witness ==
    /\ Returned
    /\ CHANDA_RULES = <<>>
    /\ pada_count = 4
    /\ counts = <<8, 8, 8, 8>>
    /\ Res.base_family = "anushtubh"
    /\ Res.deviation_D = Some(0)

\* C8: when Layer 1 yields no base_family and no exact combination matches, the
\* base family is a family of the table at the smallest distance from counts[0],
\* and of the families at that distance the first one in the order of the table.
C8_ClosestFamily ==
    (Returned /\ Layer1NoFamily /\ counts # <<>> /\ ~ExactCase) =>
        \E k \in 1..Len(BASE_METER_SYLLABLES) :
            /\ Res.base_family = BASE_METER_SYLLABLES[k].fam
            /\ \A j \in 1..Len(BASE_METER_SYLLABLES) :
                  LET dj == Abs(counts[1] - BASE_METER_SYLLABLES[j].target)
                      dk == Abs(counts[1] - BASE_METER_SYLLABLES[k].target)
                  IN  IF j < k THEN dj > dk ELSE dj >= dk

\* a first pada of 10 syllables, equidistant from brihati (9) and trishtubh (11)
C8_Witness ==
    /\ Returned
    /\ rule = 0
    /\ counts # <<>>
    /\ counts[1] = 10
    /\ ~ExactCase
    /\ Res.base_family = "brihati"

\* the label the thresholds give for D
ClaimLabel(D) ==
    CASE D = -1 -> "nichrid"
      [] D = 1 -> "bhurik"
      [] D = 2 -> "viraj"
      [] D >= 3 -> "svaraj"
      [] OTHER -> None

\* C9: whenever the result has a base_family with a known target, deviation_D is
\* counts[0] - target and deviation_label is nichrid for -1, bhurik for 1, viraj
\* for 2, svaraj for 3 and more, None for 0 and for -2 and less.
C9_Deviation ==
    (Returned /\ Res.base_family # None /\ BaseTarget(Res.base_family) # NoValue) =>
        /\ Res.deviation_D = Some(counts[1] - Val(BaseTarget(Res.base_family)))
        /\ Res.deviation_label = ClaimLabel(Val(Res.deviation_D))

\* a result two or more syllables short of its family, without a label
C9_Witness ==
    /\ Returned
    /\ Res.deviation_D # NoValue
    /\ Val(Res.deviation_D) <= -2
    /\ Res.deviation_label = None

\* C10: full_label is the label of the rule Layer 1 matched, verbatim; without a
\* matched rule it is "<deviation_label> <base_family>" when a deviation label
\* was inferred and the bare base_family when none was.
C10_FullLabel ==
    Returned =>
        IF rule # 0 THEN Res.full_label = TheRule.label
        ELSE IF Res.deviation_label # None
        THEN Res.full_label = <<Res.deviation_label, Res.base_family>>
        ELSE Res.full_label = (IF Res.base_family = None THEN <<>> ELSE <<Res.base_family>>)

\* a matched rule whose label is kept although a deviation label was inferred
\* and the composed label would differ
C10_Witness ==
    /\ Returned
    /\ rule # 0
    /\ Res.deviation_label # None
    /\ Res.full_label = TheRule.label
    /\ TheRule.label # <<Res.deviation_label, Res.base_family>>

(***************************************************************************)
(* Claims about the failure modes of classify_rule_based                   *)
(***************************************************************************)
\* C11: called with empty syllable counts, classify_rule_based returns
\* normally, whatever the pada_count and the rule table, with base_family,
\* deviation_D, deviation_label and full_label all None and a non-empty notes
\* list.
C11_EmptyCountsUnclassified ==
    (cpc # "idle" /\ counts = <<>>) =>
        /\ cpc = "returned"
        /\ Res.base_family = None
        /\ Res.deviation_D = NoValue
        /\ Res.deviation_label = None
        /\ Res.full_label = <<>>
        /\ Res.notes # <<>>

\* the record r has a syllable_pattern of numbers only, or none
WellFormed(r) ==
    r.syllable_pattern = NoValue \/ ~HasNonNumeric(Val(r.syllable_pattern))

\* the four fields of two results that carry the classification
SameOutcome(a, b) ==
    /\ a.base_family = b.base_family
    /\ a.deviation_D = b.deviation_D
    /\ a.deviation_label = b.deviation_label
    /\ a.full_label = b.full_label

\* C12: a rule record whose syllable_pattern has a non-numeric entry is skipped
\* on its own: with such a record in the table the call does not raise, and
\* its outcome is the outcome over the table without the malformed records.
C12_MalformedSkipped ==
    (cpc # "idle" /\ \E k \in 1..Len(CHANDA_RULES) : ~WellFormed(CHANDA_RULES[k])) =>
        \A ref \in {classify_rule_based(SelectSeq(CHANDA_RULES, WellFormed),
                                        pada_count, syllable_count_per_pada)} :
            ref.raised = None =>
                /\ cpc = "returned"
                /\ SameOutcome(Res, Val(ref.result))

HasNote(n) == \E k \in 1..Len(Res.notes) : Res.notes[k] = n

\* C13: with no rule loaded the call does not raise, matches no rule, records
\* the note that Layer 1 was skipped and, for non-empty counts, has the
\* base_family Layer 2 chooses, deviation_D = counts[0] - target of that family
\* and the deviation label of that D.
C13_EmptyTable ==
    (cpc # "idle" /\ CHANDA_RULES = <<>>) =>
        /\ cpc = "returned"
        /\ rule = 0
        /\ HasNote("no_rules_loaded")
        /\ counts # <<>> =>
              \A fam \in {_choose_base_family_pingala(pada_count, counts).family} :
                  /\ fam # None
                  /\ Res.base_family = fam
                  /\ Res.deviation_D = Some(counts[1] - Val(BaseTarget(fam)))
                  /\ Res.deviation_label = ClaimLabel(counts[1] - Val(BaseTarget(fam)))

\* a call without any rule that classified non-uniform counts through Layer 2
\* and inferred a deviation label
C13_Witness ==
    /\ Returned
    /\ CHANDA_RULES = <<>>
    /\ counts # <<>>
    /\ ~UniformCounts
    /\ HasNote("no_rules_loaded")
    /\ Res.base_family # None
    /\ Res.deviation_label # None

(***************************************************************************)
(* Claims about split_padas, checked under PadSpec                         *)
(***************************************************************************)
PadaTexts(ps) == [k \in 1..Len(ps) |-> ps[k].text]

HasBar(str) == \E k \in 1..Len(str) : str[k] = "|"

\* the positions at which a stretch between markers begins: the first position
\* and every position behind a marker
ClaimStarts(t) == {a \in 1..(Len(t) + 1) : a = 1 \/ t[a - 1] = "|"}

\* the stretch beginning at a: up to the next marker or the end of the text
ClaimStretch(t, a) ==
    LET bars == {b \in a..Len(t) : t[b] = "|"}
        last == IF bars = {} THEN Len(t)
                ELSE (CHOOSE b \in bars : \A c \in bars : b <= c) - 1
    IN  SubSeq(t, a, last)

\* a text without whitespace at either end
IsTrimmed(str) ==
    str = <<>> \/ (str[1] \notin WHITESPACE /\ str[Len(str)] \notin WHITESPACE)

\* the stretches that hold more than whitespace
ClaimKept(t) == {a \in ClaimStarts(t) : Strip(ClaimStretch(t, a)) # <<>>}

\* C14: split_padas returns, in input order, exactly the non-empty trimmed
\* chunks between the boundary markers, numbered 0, 1, ..., n-1; no pada text
\* is empty or holds a marker; a text without marker gives the one pada that is
\* the whole trimmed text; a blank text gives no pada.
C14_SplitPadas ==
    ppc = "done" =>
        LET t == normalized_text
            kept == ClaimKept(t)
        IN  /\ Len(padas) = Cardinality(kept)
            /\ \A a \in kept :
                  LET k == Cardinality({b \in kept : b < a}) + 1
                  IN  /\ padas[k].index = k - 1
                      /\ padas[k].text = Strip(ClaimStretch(t, a))
            /\ \A k \in 1..Len(padas) :
                  /\ padas[k].text # <<>>
                  /\ ~HasBar(padas[k].text)
                  /\ IsTrimmed(padas[k].text)
            /\ (~HasBar(t) /\ Strip(t) # <<>>) => PadaTexts(padas) = <<Strip(t)>>
            /\ Strip(t) = <<>> => padas = <<>>

\* a verse with a double marker and padded chunks that gave two padas
C14_Witness ==
    /\ ppc = "done"
    /\ Len(padas) = 2
    /\ padas[2].index = 1
    /\ \E k \in 1..(Len(normalized_text) - 1) :
          normalized_text[k] = "|" /\ normalized_text[k + 1] = "|"
    /\ normalized_text[1] = " "

RECURSIVE JoinBar(_)
\* "|".join(texts)
JoinBar(texts) ==
    IF texts = <<>> THEN <<>>
    ELSE IF Len(texts) = 1 THEN texts[1]
    ELSE texts[1] \o <<"|">> \o JoinBar(Tail(texts))

\* C15: splitting the text of a returned pada again gives that one pada, and
\* splitting the returned texts joined by the marker gives the same texts in
\* the same order.
C15_ResplitNoOp ==
    ppc = "done" =>
        /\ \A k \in 1..Len(padas) :
              PadaTexts(split_padas(padas[k].text)) = <<padas[k].text>>
        /\ PadaTexts(split_padas(JoinBar(PadaTexts(padas)))) = PadaTexts(padas)

\* a verse with an empty chunk between its markers that gave three padas
C15_Witness ==
    /\ ppc = "done"
    /\ Len(padas) = 3
    /\ Len(SplitBar(normalized_text, <<>>)) > 3

(***************************************************************************)
(* Claims about the normalization, checked under NormSpec                  *)
(***************************************************************************)
\* C16: normalizing a normalized text changes nothing: normalize_text applied
\* (with the same flags) to its own result returns that result, and so does
\* normalize_danda.
C16_Idempotent ==
    /\ npc = "normalize_text" =>
          normalize_text(text_out, strip_svaras, normalize_dandas, normalize_ws) = text_out
    /\ npc = "normalize_danda" => normalize_danda(text_out) = text_out

Contains(str, sub) ==
    \E k \in 1..(Len(str) - Len(sub) + 1) : SubSeq(str, k, k + Len(sub) - 1) = sub

\* a text with a triple bar and padding around it, rewritten by normalize_text
\* with its default flags
C16_Witness ==
    /\ npc = "normalize_text"
    /\ ~strip_svaras /\ normalize_dandas /\ normalize_ws
    /\ Contains(text_in, <<"|", "|", "|">>)
    /\ text_in[1] = " "
    /\ text_out # text_in

\* C17: normalize_danda turns every single danda into the single marker and
\* every double danda into the double marker (two adjacent bars), each set off
\* by single spaces: a text with a single danda and a later double danda
\* becomes a text that holds " | " and " || " and no two spaces in a row.
C17_CanonicalMarkers ==
    ( /\ npc = "normalize_danda"
      /\ \E j, k \in 1..Len(text_in) :
            j < k /\ text_in[j] = "danda" /\ text_in[k] = "double_danda" ) =>
        /\ Contains(text_out, <<" ", "|", " ">>)
        /\ Contains(text_out, <<" ", "|", "|", " ">>)
        /\ ~Contains(text_out, <<" ", " ">>)

(***************************************************************************)
(* Claims about the ganas, checked under SylSpec                           *)
(***************************************************************************)
\* the 8 strings of length 3 over {L, G}
Triplets == {<<a, b, c>> : a, b, c \in {"L", "G"}}

\* C18: GANA_MAP gives each of the 8 triplets over {L, G} a name, the 8 names
\* are pairwise distinct, and no gana returned by syllabify_line is the
\* placeholder "?".
C18_GanaBijection ==
    pc = "done" =>
        /\ \A t \in Triplets : GANA_MAP(t) # "?"
        /\ \A t, u \in Triplets : GANA_MAP(t) = GANA_MAP(u) => t = u
        /\ Cardinality({GANA_MAP(t) : t \in Triplets}) = 8
        /\ \A k \in 1..Len(ganas) : ganas[k] # "?"

\* a returned call with three heavy aksharas and their gana
C18_Witness ==
    /\ pc = "done"
    /\ Len(ganas) = 1
    /\ SubSeq(LG, 1, 3) = <<"G", "G", "G">>
    /\ ganas[1] # "?"

\* the grouping of C19 for the L/G string lg and the ganas g
ClaimGrouped(lg, g) ==
    /\ Len(g) = Len(lg) \div 3
    /\ \A j \in 0..(Len(g) - 1) :
          g[j + 1] = GANA_MAP(<<lg[3 * j + 1], lg[3 * j + 2], lg[3 * j + 3]>>)

\* every L/G string of up to MaxTags tags is grouped by lg_to_ganas
AllGrouped == \A lg \in SeqsUpTo({"L", "G"}, MaxTags) : ClaimGrouped(lg, lg_to_ganas(lg))

\* C19: the result of syllabify_line has one L/G tag per akshara, in order;
\* the ganas are floor(len(aksharas) / 3) many, the j-th being the name of the
\* tags 3j..3j+2; a remainder of one or two tags has no gana and stays in LG.
\* The same grouping holds for lg_to_ganas on every L/G string up to MaxTags.
C19_GanaGrouping ==
    pc = "done" =>
        /\ Len(LG) = Len(aksharas)
        /\ \A k \in 1..Len(LG) :
              LG[k] = (IF aksharas[k].prosodic_matra >= 2 THEN "G" ELSE "L")
        /\ Len(ganas) = Len(aksharas) \div 3
        /\ ClaimGrouped(LG, ganas)
        /\ AllGrouped

\* a returned call with four aksharas: one gana, and a remainder of one tag
C19_Witness ==
    /\ pc = "done"
    /\ Len(aksharas) = 4
    /\ Len(LG) = 4
    /\ Len(ganas) = 1
    /\ ganas[1] = GANA_MAP(SubSeq(LG, 1, 3))

(***************************************************************************)
(* Claims about the outcome of syllabify_line, checked under SylFairSpec   *)
(***************************************************************************)
\* the text holds whitespace and boundary characters only (or nothing)
OnlySeparators == \A k \in 1..Len(chars) : IsSeparator(chars[k])

\* while the call runs, i is a position of the text or its end and one branch
\* of the loop or the final flush can run; once it has returned, the whole text
\* has been read, and a text of separators only has given three empty results
C20_StateOk ==
    /\ i \in 0..Len(chars)
    /\ pc \in {"loop", "done"}
    /\ pc = "loop" => ENABLED SylNext
    /\ pc = "done" => i = Len(chars)
    /\ (pc = "done" /\ OnlySeparators) =>
          aksharas = <<>> /\ LG = <<>> /\ ganas = <<>>

\* a step either reads exactly the next character or is the return at the end
C20_StepOk ==
    \/ pc = "loop" /\ pc' = "loop" /\ i < Len(chars) /\ i' = i + 1 /\ chars' = chars
    \/ pc = "loop" /\ pc' = "done" /\ i = Len(chars) /\ i' = i /\ chars' = chars

\* C20: syllabify_line has no error outcome: on every text, texts with
\* unrecognized characters included, every step is handled, each character is
\* read exactly once, and the call returns; the empty text and a text of
\* whitespace and boundary characters only give no akshara, an empty L/G string
\* and no gana.
C20_NoErrorOutcome ==
    /\ []C20_StateOk
    /\ [][C20_StepOk]_vars
    /\ <>(pc = "done")

\* a returned call on a text with an unrecognized character, read to its end
C20_Witness ==
    /\ pc = "done"
    /\ \E k \in 1..Len(chars) : IsOther(chars[k])
    /\ \E k \in 1..Len(chars) : IsSeparator(chars[k])
    /\ i = Len(chars)
    /\ aksharas # <<>>

(***************************************************************************)
(* Claims about the branches of the syllabifier loop, checked under SylSpec *)
(***************************************************************************)
\* a consonant stands behind the first character of the text: it was read
\* while the syllable was open (the character that opens a syllable is the
\* first of its text)
HasLaterConsonant(text) == \E j \in 2..Len(text) : _is_consonant(text[j])

\* C24: a consonant read while a syllable is open joins the cluster that
\* decides the weight: the akshara it was appended to has a non-empty coda
\* and is heavy, also with a short nucleus.
C24_LaterConsonantIsCoda ==
    \A k \in 1..Len(aksharas) :
        HasLaterConsonant(aksharas[k].text) =>
            /\ aksharas[k].coda # <<>>
            /\ L_or_G(aksharas[k]) = "G"

IsNotMark(ch) == ~_is_mark(ch)

\* the text with all combining marks deleted
WithoutMarks(text) == SelectSeq(text, IsNotMark)

\* C25: a combining mark never starts a syllable: a returned call has as many
\* aksharas as the call on the text with its combining marks deleted.
C25_MarkNeverStartsSyllable ==
    pc = "done" =>
        Len(aksharas) = Len(syllabify_line(WithoutMarks(chars)).aksharas)

\* the dependent vowel signs of a text, in order
SignsOf(text) == SelectSeq(text, _is_dependent_vowel)

\* the nucleus the claim gives a syllable with this text
ClaimNucleus(text) ==
    IF SignsOf(text) # <<>> THEN SignsOf(text)[Len(SignsOf(text))]
    ELSE IF text # <<>> /\ _is_independent_vowel(text[1]) THEN text[1]
    ELSE "a"

\* a syllable is open: one of the three buffers is set
SyllableOpen == cur_text # <<>> \/ cur_vowel # None \/ cur_coda # <<>>

\* every emitted akshara has the nucleus of the claim, and an independent vowel
\* stands only at the start of a syllable
C26_NucleusOk ==
    /\ \A k \in 1..Len(aksharas) :
          /\ aksharas[k].vowel = ClaimNucleus(aksharas[k].text)
          /\ \A j \in 2..Len(aksharas[k].text) :
                ~_is_independent_vowel(aksharas[k].text[j])
    /\ \A j \in 2..Len(cur_text) : ~_is_independent_vowel(cur_text[j])

\* reading an independent vowel closes the open syllable, if any, and opens a
\* new one with that vowel as its nucleus
C26_StepOk ==
    (Reading /\ ~IsSeparator(chars[i + 1]) /\ _is_independent_vowel(chars[i + 1])) =>
        /\ IF SyllableOpen
           THEN /\ Len(aksharas') = Len(aksharas) + 1
                /\ SubSeq(aksharas', 1, Len(aksharas)) = aksharas
                /\ aksharas'[Len(aksharas')].text = cur_text \o cur_coda
           ELSE aksharas' = aksharas
        /\ cur_text' = <<chars[i + 1]>>
        /\ cur_vowel' = chars[i + 1]
        /\ cur_coda' = <<>>

\* C26: nucleus selection: an independent vowel always closes the open
\* syllable (if any) and opens a new one; the nucleus of every emitted akshara
\* is the last dependent vowel sign read for it if there was one, otherwise
\* the independent vowel that opened it, otherwise the inherent vowel "a".
C26_NucleusSelection == []C26_NucleusOk /\ [][C26_StepOk]_vars

\* a returned call that emitted an akshara with two signs, whose nucleus is the
\* second, after it an akshara opened by an independent vowel that closed it,
\* and before them an akshara with the inherent vowel
C26_Witness ==
    /\ pc = "done"
    /\ \E k \in 1..Len(aksharas) :
          /\ Len(SignsOf(aksharas[k].text)) = 2
          /\ aksharas[k].vowel = SignsOf(aksharas[k].text)[2]
          /\ aksharas[k].vowel # SignsOf(aksharas[k].text)[1]
          /\ k < Len(aksharas)
          /\ _is_independent_vowel(aksharas[k + 1].text[1])
          /\ aksharas[k + 1].vowel = aksharas[k + 1].text[1]

(***************************************************************************)
(* Claims about the character tests of the two components, checked under   *)
(* PadSpec on the characters the sandhi profile of a pada is computed from *)
(***************************************************************************)
\* C27: the consonant test of the sandhi profile (_is_consonant_like) gives,
\* for every character of a pada, the answer of the syllabifier's consonant
\* test (_is_consonant).
C27_SameConsonantTest ==
    \A k \in 1..Len(padas) :
        \A j \in 1..Len(padas[k].text) :
            _is_consonant_like(padas[k].text[j]) <=> _is_consonant(padas[k].text[j])

(***************************************************************************)
(* Claims about the fields of a RuleBasedResult, checked under ClsSpec     *)
(***************************************************************************)
\* the seven canonical families
SevenFamilies == {"gayatri", "ushnih", "anushtubh", "brihati", "pankti", "trishtubh", "jagati"}

\* the target of a canonical family
ClaimTarget(fam) ==
    CASE fam \in {"gayatri", "anushtubh", "pankti"} -> 8
      [] fam = "ushnih" -> 7
      [] fam = "brihati" -> 9
      [] fam = "trishtubh" -> 11
      [] fam = "jagati" -> 12

\* C28: every returned RuleBasedResult is consistent: a deviation_label only
\* with a deviation_D; a deviation_D only with a base_family among the seven
\* canonical families, and then deviation_D = counts[0] - target(base_family)
\* and deviation_label is the label of the thresholds for that D; without a
\* base_family no deviation_D and no deviation_label; and non-empty counts
\* always give a base_family.
C28_ResultConsistent ==
    Returned =>
        /\ Res.deviation_label # None => Res.deviation_D # NoValue
        /\ Res.deviation_D # NoValue =>
              /\ Res.base_family \in SevenFamilies
              /\ Val(Res.deviation_D) = counts[1] - ClaimTarget(Res.base_family)
              /\ Res.deviation_label = ClaimLabel(Val(Res.deviation_D))
        /\ Res.base_family = None =>
              (Res.deviation_D = NoValue /\ Res.deviation_label = None)
        /\ counts # <<>> => Res.base_family # None

\* a result whose base_family, taken from the matched rule, is none of the
\* seven families: it has counts and a family but no deviation_D and no label
C28_Witness ==
    /\ Returned
    /\ counts # <<>>
    /\ Res.base_family # None
    /\ Res.base_family \notin SevenFamilies
    /\ Res.deviation_D = NoValue
    /\ Res.deviation_label = None

\* the family the closest-target fallback gives for a first count n
ClaimClosest(n) ==
    IF n <= 7 THEN "ushnih"
    ELSE IF n = 8 THEN "gayatri"
    ELSE IF n <= 10 THEN "brihati"
    ELSE IF n = 11 THEN "trishtubh"
    ELSE "jagati"

\* C29: in the closest-target fallback (Layer 1 gave no base_family, no exact
\* combination matched) the family is a function of counts[0] alone and is
\* never anushtubh or pankti: a first count of 8 gives gayatri, as counts
\* [8,9,8,8] with pada_count 4 do.
C29_FallbackByFirstCount ==
    (Returned /\ Layer1NoFamily /\ counts # <<>> /\ ~ExactCase) =>
        /\ Res.base_family = ClaimClosest(counts[1])
        /\ Res.base_family \notin {"anushtubh", "pankti"}
        /\ counts[1] = 8 => Res.base_family = "gayatri"
        /\ (counts = <<8, 9, 8, 8>> /\ pada_count = 4) => Res.base_family = "gayatri"

\* the call of the example: four padas counted 8, 9, 8, 8, no rule matched
C29_Witness ==
    /\ Returned
    /\ rule = 0
    /\ pada_count = 4
    /\ counts = <<8, 9, 8, 8>>
    /\ ~ExactCase
    /\ Res.base_family = "gayatri"

(***************************************************************************)
(* Claims about chanda_parser.py, checked under ParSpec                    *)
(***************************************************************************)
\* the deviation label the cell gives its first component explicitly
GivenLabel == parse_chanda_cell(raw_cell)[1].deviation_label

\* C22: after compute_deviation_D was called with a count n on a ParsedChanda
\* whose base_meter is one of the seven families, deviation_D is
\* n - target(base_meter); a deviation label given in the cell is kept, and
\* without one the deviation_label is the one the thresholds give for this D
\* (None for 0 and for -2 and less), after one call and after several calls
\* with different counts.
C22_DeviationOfLastCall ==
    (chpc = "parsed" /\ dcalls > 0 /\ actual_syllables_per_pada # NoValue
        /\ parsed_list[1].base_meter \in SevenFamilies) =>
        LET p == parsed_list[1]
            D == Val(actual_syllables_per_pada) - ClaimTarget(p.base_meter)
        IN  /\ p.deviation_D = Some(D)
            /\ GivenLabel # None => p.deviation_label = GivenLabel
            /\ GivenLabel = None => p.deviation_label = ClaimLabel(D)

\* the family a unit names, or None
ClaimFamilyOfUnit(u) ==
    CASE u = "gAyatrI" -> "gayatri"
      [] u = "bRhatI" -> "brihati"
      [] u = "Jagati_latin" -> "jagati"
      [] OTHER -> None

\* the positions of a component at which a family is named
ClaimFamilyPositions(comp) ==
    {j \in 1..Len(comp) : ClaimFamilyOfUnit(comp[j]) # None}

\* the family name at position j stands as a token of its own, or joined to a
\* deviation prefix in one token
ClaimNamedAt(comp, j) ==
    LET alone == /\ (j = 1 \/ comp[j - 1] \in WHITESPACE)
                 /\ (j = Len(comp) \/ comp[j + 1] \in WHITESPACE)
        joined == /\ j > 1
                  /\ comp[j - 1] = "svarAD"
                  /\ (j = 2 \/ comp[j - 2] \in WHITESPACE)
                  /\ (j = Len(comp) \/ comp[j + 1] \in WHITESPACE)
    IN  alone \/ joined

\* C23: parse_chanda_cell returns one ParsedChanda per non-empty
\* comma-separated component, in order, empty components skipped; the
\* base_meter of each is the family named in the component, also when the
\* name is joined to a deviation prefix in one token.
C23_OnePerComponent ==
    chpc = "parsed" =>
        \E comps \in {StripComponents(SplitComma(raw_cell, <<>>))} :
            /\ Len(parsed_list) = Len(comps)
            /\ \A k \in 1..Len(comps) :
                  /\ parsed_list[k].raw = comps[k]
                  /\ \A j \in ClaimFamilyPositions(comps[k]) :
                        (ClaimFamilyPositions(comps[k]) = {j} /\ ClaimNamedAt(comps[k], j))
                            => parsed_list[k].base_meter = ClaimFamilyOfUnit(comps[k][j])

(***************************************************************************)
(* Claims about repeated and concurrent calls, checked under CallSpec      *)
(***************************************************************************)
BothReturned(a, b) == callers[a].pc = "returned" /\ callers[b].pc = "returned"

SameCounts(a, b) ==
    /\ callers[a].pada_count = callers[b].pada_count
    /\ callers[a].counts = callers[b].counts

\* C21 as stated: calls with the same (pada_count, counts), whatever ran before
\* or between their steps, return results equal field by field, notes included.
C21_SameCountsSameResult ==
    \A a, b \in Callers :
        (BothReturned(a, b) /\ SameCounts(a, b)) =>
            Val(callers[a].result) = Val(callers[b].result)

\* calls with the same (pada_count, counts, source_veda) return equal results,
\* and calls with the same (pada_count, counts) results equal in every field
\* but the notes
C21_SameCallSameResult ==
    \A a, b \in Callers :
        (BothReturned(a, b) /\ SameCounts(a, b)) =>
            LET ra == Val(callers[a].result)
                rb == Val(callers[b].result)
            IN  /\ ra.base_family = rb.base_family
                /\ ra.deviation_D = rb.deviation_D
                /\ ra.deviation_label = rb.deviation_label
                /\ ra.full_label = rb.full_label
                /\ callers[a].source_veda = callers[b].source_veda => ra = rb

\* no step of a call changes the loaded rule table
C21_TableReadOnly == CHANDA_RULES' = CHANDA_RULES

\* C21 (amended): classify_rule_based never modifies CHANDA_RULES, and for a
\* fixed table any sequential or concurrent calls with the same (pada_count,
\* counts, source_veda) return results equal field by field, notes included.
C21_HistoryIndependent == []C21_SameCallSameResult /\ [][C21_TableReadOnly]_vars

\* two callers back from calls with the same arguments that a rule matched,
\* the count strings written differently
C21_Witness ==
    /\ BothReturned(1, 2)
    /\ SameCounts(1, 2)
    /\ callers[1].source_veda = callers[2].source_veda
    /\ callers[1].syllable_count_per_pada # callers[2].syllable_count_per_pada
    /\ callers[1].rule # 0
    /\ Val(callers[1].result) = Val(callers[2].result)

(***************************************************************************)
(* Claims about the way of a text to the classifier, checked under PipeSpec *)
(***************************************************************************)
\* C30: for every text, classify_rule_based receives one syllable count per
\* pada: the parsed counts are the counts of the padas (as many as pada_count,
\* unchanged by the way through the comma-joined string), every count is at
\* least 1, and a blank text arrives as pada_count 0 with empty counts.
C30_OneCountPerPada ==
    fpc = "classified" =>
        /\ pada_count = Len(padas)
        /\ Len(counts) = pada_count
        /\ counts = syllable_counts
        /\ \A k \in 1..Len(counts) : counts[k] >= 1
        /\ Strip(text_in) = <<>> =>
              (pada_count = 0 /\ syllable_count_per_pada = <<>> /\ counts = <<>>)

\* a text of two padas, one akshara each, that reached the classifier
C30_Witness ==
    /\ fpc = "classified"
    /\ pada_count = 2
    /\ counts = <<1, 1>>
    /\ syllable_count_per_pada = <<"1", ",", "1">>

====
